---- MODULE Spec2Model ----
(***************************************************************************)
(* The speech playback controller of tts_read: NBSapiSpeaker               *)
(* (src/src/prototype/text_speaker_v2.py), its worker thread, the fallback *)
(* word highlighting loop, and the thread that calls its public methods.   *)
(*                                                                         *)
(* Granularity: one step per `with self._lock:` block that does not wait,  *)
(* one step per engine call, one step per word-callback invocation.  The   *)
(* two places where the code sleeps inside a `with self._lock:` block      *)
(* (lines 309-314 and 438-456) keep the lock across steps.                 *)
(* threading.Lock is not reentrant.  Wall-clock time is not modelled: a    *)
(* comparison with the clock is a nondeterministic choice.                 *)
(*                                                                         *)
(* Further specifications over the same variables: Pyttsx3Speaker          *)
(* (P3Spec), cleanup() (CleanupSpec), the conversion of the speed to the   *)
(* rate of the engine (RateSpec), the expected times of the words          *)
(* (TimingSpec) and their adaptive correction (DriftSpec).  With variables  *)
(* of their own: startup_cleanup (StartupSpec), SAPITextSpeaker of         *)
(* text_speaker.py (SapiSpec), the pause/resume hotkey of main.py          *)
(* (HotkeySpec) and the command queue of the display window (WindowSpec,   *)
(* WindowFairSpec).                                                        *)
(***************************************************************************)
EXTENDS Integers, Sequences, FiniteSets, TLC

\* ------------------------------------------------------------------ bounds
\* number of speak() calls made in one behaviour
MaxRequests == 2
\* number of words of the longest request text
MaxWords == 2

\* number of characters of the longest text of the highlighting run
MaxLen == 5
\* number of clock ticks of the highlighting run
MaxTime == 3

\* the thread that calls the public methods: the hotkey callbacks of
\* VorleseApp (main.py) are run one after the other by the hotkey listener
Callers == {1}
\* one worker thread per accepted request, named by the request
Workers == 1..MaxRequests
\* the texts of the requests, by their number of words: an empty text and a full one
WordCounts == {0, MaxWords}

Free == <<"free", 0>>
CallerT(c) == <<"caller", c>>
WorkerT(w) == <<"worker", w>>

VARIABLES
    \* TextSpeakerBase / NBSapiSpeaker fields
    _is_speaking, _is_paused, _word_callback,
    _current_words,     \* the request whose word list is stored, 0 for the empty list
    _current_word_index, _paused_word_index,
    _speech_thread,
    lock,               \* holder of self._lock
    registry,           \* _GLOBAL_THREAD_REGISTRY
    \* the engine (self.tts)
    native,             \* hasattr(self.tts, 'SetWordCallBack')
    engStatus,          \* GetStatus("RunningState"): 0 speaking, 1 completed
    engCb,              \* worker whose on_word_boundary closure is subscribed, 0 none
    \* requests
    nextReq,            \* the next request
    req,                \* the arguments of each request
    cur,                \* the request accepted last (speak(), lines 218-222)
    \* caller threads
    cpc, cop, creq, ctarget,
    cret,               \* what the caller's last call gave back: "none", "true",
                        \* "false", "caught" when it caught an exception of
                        \* the engine, "raised" when it let an exception out
    \* worker threads
    wpc, widx, wfl, wslept,
    \* observation
    stopReturned,       \* requests for which a public stop() has returned
    \* one run of the fallback highlighting with its data
    \* (_speak_with_word_highlighting_fallback, _sapi_status_word_highlighting)
    text,               \* the request text, a sequence of characters
    hpc,                \* position in the run
    current_word_index, \* the local variable of that name
    flush_i,            \* the index i of the quick highlighting loop
    sapi_completion_detected,
    delivered,          \* the (offset, length) pairs passed to the word callback
    now,                \* time.time(), in ticks since the start of the speech
    current_time,       \* the local variable of that name, read at line 429
    expected_time,      \* words[i]['expected_time']
    pause_start,        \* the local variable of that name, read at line 442
    pause_began,        \* when pause() set the paused flag
    owed,               \* for each word, its expected time before any pause
                        \* plus the durations of the pauses that ended with
                        \* resume() while the word was still to be highlighted
    \* the speech rate
    speed,              \* the argument speed of speak(), a fraction << n, d >>
    sapi_rate,          \* the rate of the engine, set by SetRate (line 229)
                        \* and read by GetRate (line 393)
    \* the adaptive timing of _sapi_status_word_highlighting
    word_lengths,       \* len(word['text']) of each word of the argument words
    timing_corrections, \* the local list of that name, its last three entries
    \* the start of the application (startup_cleanup), one run per instance
    ppc,                \* each instance's position in startup_cleanup
    alive,              \* the instances that have not been killed
    kill_previous,      \* the environment variable VORLESE_KILL_PREVIOUS
    lock_file,          \* the content of vorlese_app.lock, 0 when the file
                        \* does not exist, else the process id written in it
    \* SAPITextSpeaker (text_speaker.py), which speaks sentence by sentence
    _pause_event,       \* threading.Event, set means "not paused"
    _stop_event,        \* threading.Event
    _current_sentences, \* the request whose sentences the list holds, 0 for []
    _current_sentence_index,
    sentence,           \* each worker's local variable of that name, as the
                        \* pair << request, index >> of the sentence it read
    spoken,             \* the sentences spoken so far, with the worker that
                        \* spoke each
    \* the pause/resume hotkey of the application (main.py)
    speakers,           \* self.speakers: for each action the flags
                        \* _is_speaking and _is_paused of its speaker
    kpc,                \* position in _on_pause_resume_hotkey
    action,             \* the loop variable of that name, a position in
                        \* self.speakers
    active_speaker,     \* the local variables of those names, 0 for None
    paused_speaker,
    hotkey_ops,         \* the speaker operations of the current press
    \* the display window (text_display_window.py)
    command_queue,      \* queue.Queue of (command, args)
    is_running,
    gpc,                \* position of the GUI thread in _run_event_loop
    current_text,       \* the text in the widget, 0 while it is empty
    visible,            \* the window is shown
    highlighted,        \* the range carrying the tag "highlight"
    enqueued,           \* every command put on the queue, in order
    executed            \* every command executed, in order, with the text
                        \* in the widget when it was executed

flagVars == << _is_speaking, _is_paused >>
wordVars == << _word_callback, _current_words, _current_word_index,
               _paused_word_index >>
threadVars == << _speech_thread, registry >>
engineVars == << engStatus, engCb >>
requestVars == << native, nextReq, req >>
callerVars == << cpc, cop, creq, ctarget, cret >>
workerVars == << wpc, widx, wfl, wslept >>

runVars == << text, hpc, current_word_index, flush_i, sapi_completion_detected,
             delivered >>
timeVars == << now, current_time, expected_time, pause_start, pause_began, owed >>
rateVars == << speed, sapi_rate >>
driftVars == << word_lengths, timing_corrections >>
startupVars == << ppc, alive, kill_previous, lock_file >>
sapiVars == << _pause_event, _stop_event, _current_sentences,
              _current_sentence_index, sentence, spoken >>
hotkeyVars == << speakers, kpc, action, active_speaker, paused_speaker,
                hotkey_ops >>
windowVars == << command_queue, is_running, gpc, current_text, visible,
                highlighted, enqueued, executed >>
extVars == << startupVars, sapiVars, hotkeyVars, windowVars >>
hlVars == << runVars, timeVars, rateVars, driftVars, extVars >>

vars == << flagVars, wordVars, threadVars, lock, engineVars, requestVars, cur,
           callerVars, workerVars, stopReturned, hlVars >>

NoReq == [cb |-> FALSE, nwords |-> 0]

\* the instances of the application that start at about the same time; the
\* instance number stands for the process id
MaxProcs == 2
Procs == 1..MaxProcs
\* the process id left in the lock file by an instance that ended earlier
StalePid == MaxProcs + 1

\* startup_cleanup has run in this process, alone, before the speaker is made
\* (main.py line 46)
StartupRest ==
    /\ ppc = [p \in Procs |-> "done"]
    /\ alive = Procs
    /\ kill_previous = "unset"
    /\ lock_file = 1

\* SAPITextSpeaker.__init__
SapiRest ==
    /\ _pause_event = FALSE
    /\ _stop_event = FALSE
    /\ _current_sentences = 0
    /\ _current_sentence_index = 0
    /\ sentence = [w \in Workers |-> << 0, 0 >>]
    /\ spoken = << >>

\* the speakers that main.py keeps, one for each enabled action
MaxSpeakers == 3
Actions == 1..MaxSpeakers

\* TextSpeakerBase.__init__ for each of them; no hotkey is being handled
HotkeyRest ==
    /\ speakers = [a \in Actions |->
                      [_is_speaking |-> FALSE, _is_paused |-> FALSE]]
    /\ kpc = "idle"
    /\ action = 0
    /\ active_speaker = 0
    /\ paused_speaker = 0
    /\ hotkey_ops = << >>

\* TextDisplayWindow.__init__ and _start_gui_thread: the GUI thread is at
\* the head of its event loop
WindowRest ==
    /\ command_queue = << >>
    /\ is_running = TRUE
    /\ gpc = "update"
    /\ current_text = 0
    /\ visible = FALSE
    /\ highlighted = << >>
    /\ enqueued = << >>
    /\ executed = << >>

\* the parts of the application outside the speaker, at rest
ExtRest ==
    /\ StartupRest
    /\ SapiRest
    /\ HotkeyRest
    /\ WindowRest

\* TextSpeakerBase.__init__, NBSapiSpeaker.__init__
SpeakerInit ==
    /\ _is_speaking = FALSE
    /\ _is_paused = FALSE
    /\ _word_callback = 0
    /\ _current_words = 0
    /\ _current_word_index = 0
    /\ _paused_word_index = 0
    /\ _speech_thread = 0
    /\ lock = Free
    /\ registry = {}
    /\ native \in BOOLEAN
    /\ engStatus = 1
    /\ engCb = 0
    /\ nextReq = 1
    /\ req = [r \in Workers |-> NoReq]
    /\ cur = 0
    /\ cpc = [c \in Callers |-> "idle"]
    /\ cop = [c \in Callers |-> "none"]
    /\ creq = [c \in Callers |-> 0]
    /\ ctarget = [c \in Callers |-> 0]
    /\ cret = [c \in Callers |-> "none"]
    /\ wpc = [w \in Workers |-> "none"]
    /\ widx = [w \in Workers |-> 0]
    /\ wfl = [w \in Workers |-> 0]
    /\ wslept = [w \in Workers |-> FALSE]
    /\ stopReturned = {}

\* the speaker after construction, no highlighting run under observation
Init ==
    /\ SpeakerInit
    /\ ExtRest
    /\ text = << >>
    /\ hpc = "off"
    /\ current_word_index = 0
    /\ flush_i = 0
    /\ sapi_completion_detected = FALSE
    /\ delivered = << >>
    /\ now = 0
    /\ current_time = 0
    /\ expected_time = << >>
    /\ pause_start = 0
    /\ pause_began = 0
    /\ owed = << >>
    /\ speed = << 1, 1 >>
    /\ sapi_rate = 0
    /\ word_lengths = << >>
    /\ timing_corrections = << >>

\* ------------------------------------------------------------ observers
\* TextSpeakerBase.is_speaking, is_active, is_paused: the value read under the lock
\* is_speaking() without the test of the paused flag, as is_active() reads it
is_speaking_unpaused == _is_speaking

is_speaking == _is_speaking /\ ~_is_paused

is_active == _is_speaking

is_paused == _is_paused

\* the states of the controller, by its two flags
StateIdle == ~_is_speaking /\ ~_is_paused
StateSpeaking == _is_speaking /\ ~_is_paused
StatePaused == _is_speaking /\ _is_paused

\* a worker thread that has been started and has not ended
Alive(w) == wpc[w] \notin {"none", "done"}

\* a public method returns to its caller, or lets an exception out
Return(c, res) ==
    /\ cpc' = [cpc EXCEPT ![c] = "idle"]
    /\ cop' = [cop EXCEPT ![c] = "none"]
    /\ cret' = [cret EXCEPT ![c] = res]

\* a caller thread invokes pause(), resume(), stop(), is_speaking(),
\* is_paused() or cleanup(), which begins with self.stop() (line 666)
Call(c, op) ==
    /\ cpc[c] = "idle"
    /\ cop' = [cop EXCEPT ![c] = op]
    /\ cret' = [cret EXCEPT ![c] = "none"]
    /\ cpc' = [cpc EXCEPT ![c] =
                 CASE op = "pause" -> "pause_check"
                   [] op = "resume" -> "resume_check"
                   [] op = "stop" -> "stop_check"
                   [] op = "cleanup" -> "stop_check"
                   [] op = "is_speaking" -> "is_speaking"
                   [] OTHER -> "is_paused"]
    /\ UNCHANGED << hlVars, flagVars, wordVars, threadVars, lock, engineVars,
                    requestVars, cur, creq, ctarget, workerVars, stopReturned >>

\* a caller thread invokes speak(text, word_callback): cb says whether a word
\* callback is supplied, n is the number of words of the text.  The lock
\* block of lines 209-211 only reads; speak() goes on into stop(), line 216
SpeakCall(c, cb, n) ==
    /\ cpc[c] = "idle"
    /\ nextReq <= MaxRequests
    /\ creq' = [creq EXCEPT ![c] = nextReq]
    /\ req' = [req EXCEPT ![nextReq] = [cb |-> cb, nwords |-> n]]
    /\ nextReq' = nextReq + 1
    /\ cop' = [cop EXCEPT ![c] = "speak"]
    /\ cret' = [cret EXCEPT ![c] = "none"]
    /\ cpc' = [cpc EXCEPT ![c] = "stop_check"]
    /\ UNCHANGED << hlVars, flagVars, wordVars, threadVars, lock, engineVars, native,
                    cur, ctarget, workerVars, stopReturned >>

\* ------------------------------------------------------------ stop()
\* the body of stop() ends: back into speak() (line 216), back into
\* cleanup() (line 666), or to the caller
StopDone(c) ==
    /\ ctarget' = [ctarget EXCEPT ![c] = 0]
    /\ IF cop[c] \in {"speak", "cleanup"}
       THEN /\ cpc' = [cpc EXCEPT ![c] = IF cop[c] = "speak" THEN "speak_set"
                                         ELSE "cleanup_alive"]
            /\ UNCHANGED << cop, cret, stopReturned >>
       ELSE /\ Return(c, "none")
            /\ stopReturned' = IF ctarget[c] = 0 THEN stopReturned
                               ELSE stopReturned \cup {ctarget[c]}

\* stop(), lines 637-643: read the flags under the lock, return if not speaking
StopCheck(c) ==
    /\ cpc[c] = "stop_check"
    /\ lock = Free
    /\ IF ~_is_speaking
       THEN StopDone(c)
       ELSE /\ cpc' = [cpc EXCEPT ![c] = "stop_engine"]
            /\ ctarget' = [ctarget EXCEPT ![c] = cur]
            /\ UNCHANGED << cop, cret, stopReturned >>
    /\ UNCHANGED << hlVars, flagVars, wordVars, threadVars, lock, engineVars,
                    requestVars, cur, creq, workerVars >>

\* stop(), line 646: self.tts.Stop(), which may raise
StopEngine(c) ==
    /\ cpc[c] = "stop_engine"
    /\ \/ /\ engStatus' = 1
          /\ cpc' = [cpc EXCEPT ![c] = "stop_unsub"]
       \/ /\ cpc' = [cpc EXCEPT ![c] = "stop_error"]
          /\ UNCHANGED engStatus
    /\ UNCHANGED << hlVars, flagVars, wordVars, threadVars, lock, engCb, requestVars,
                    cur, cop, creq, ctarget, cret, workerVars, stopReturned >>

\* stop(), lines 647-651: with a word callback, SetWordCallBack(None); an
\* engine without SetWordCallBack raises AttributeError, which is passed over
StopUnsub(c) ==
    /\ cpc[c] = "stop_unsub"
    /\ engCb' = IF _word_callback # 0 /\ native THEN 0 ELSE engCb
    /\ cpc' = [cpc EXCEPT ![c] = "stop_clear"]
    /\ UNCHANGED << hlVars, flagVars, wordVars, threadVars, lock, engStatus,
                    requestVars, cur, cop, creq, ctarget, cret, workerVars,
                    stopReturned >>

\* stop(), lines 653-656: clear both flags under the lock
StopClear(c) ==
    /\ cpc[c] = "stop_clear"
    /\ lock = Free
    /\ _is_speaking' = FALSE
    /\ _is_paused' = FALSE
    /\ StopDone(c)
    /\ UNCHANGED << hlVars, wordVars, threadVars, lock, engineVars, requestVars, cur,
                    creq, workerVars >>

\* stop(), lines 657-662: the except branch clears both flags under the lock
StopError(c) ==
    /\ cpc[c] = "stop_error"
    /\ lock = Free
    /\ _is_speaking' = FALSE
    /\ _is_paused' = FALSE
    /\ StopDone(c)
    /\ UNCHANGED << hlVars, wordVars, threadVars, lock, engineVars, requestVars, cur,
                    creq, workerVars >>

\* ------------------------------------------------------------ speak()
\* speak(), lines 218-222: accept the request under the lock
SpeakSet(c) ==
    /\ cpc[c] = "speak_set"
    /\ lock = Free
    /\ _is_speaking' = TRUE
    /\ _is_paused' = FALSE
    /\ _word_callback' = IF req[creq[c]].cb THEN creq[c] ELSE 0
    /\ cur' = creq[c]
    /\ cpc' = [cpc EXCEPT ![c] = "speak_rate"]
    /\ UNCHANGED << hlVars, _current_words, _current_word_index, _paused_word_index,
                    threadVars, lock, engineVars, requestVars, cop, creq,
                    ctarget, cret, workerVars, stopReturned >>

\* speak(), lines 224-229: _set_voice (its errors are caught) and
\* self.tts.SetRate(sapi_rate), which is outside any try and may raise
SpeakRate(c) ==
    /\ cpc[c] = "speak_rate"
    /\ \/ /\ cpc' = [cpc EXCEPT ![c] = "speak_start"]
          /\ UNCHANGED << cop, cret, creq >>
       \/ /\ Return(c, "raised")
          /\ creq' = [creq EXCEPT ![c] = 0]
    /\ UNCHANGED << hlVars, flagVars, wordVars, threadVars, lock, engineVars,
                    requestVars, cur, ctarget, workerVars, stopReturned >>

\* speak(), lines 231-238: create, register and start the worker thread
SpeakStart(c) ==
    /\ cpc[c] = "speak_start"
    /\ _speech_thread' = creq[c]
    /\ registry' = registry \cup {creq[c]}
    /\ wpc' = [wpc EXCEPT ![creq[c]] = "w_cb"]
    /\ creq' = [creq EXCEPT ![c] = 0]
    /\ Return(c, "none")
    /\ UNCHANGED << hlVars, flagVars, wordVars, lock, engineVars, requestVars, cur,
                    ctarget, widx, wfl, wslept, stopReturned >>

\* ------------------------------------------------------------ pause()
\* pause(), lines 554-560: the guard, under the lock
PauseCheck(c) ==
    /\ cpc[c] = "pause_check"
    /\ lock = Free
    /\ IF ~_is_speaking \/ _is_paused
       THEN Return(c, "none")
       ELSE /\ cpc' = [cpc EXCEPT ![c] = "pause_save"]
            /\ UNCHANGED << cop, cret >>
    /\ UNCHANGED << hlVars, flagVars, wordVars, threadVars, lock, engineVars,
                    requestVars, cur, creq, ctarget, workerVars, stopReturned >>

\* pause(), lines 563-570: remember the word index, under the lock again
PauseSave(c) ==
    /\ cpc[c] = "pause_save"
    /\ lock = Free
    /\ _paused_word_index' = _current_word_index
    /\ cpc' = [cpc EXCEPT ![c] = "pause_call"]
    /\ UNCHANGED << hlVars, flagVars, _word_callback, _current_words,
                    _current_word_index, threadVars, lock, engineVars,
                    requestVars, cur, cop, creq, ctarget, cret, workerVars,
                    stopReturned >>

\* pause() with the paused flag written before the engine is called: an
\* exception of self.tts.Pause() leaves the flag set
PauseCallFlagFirst(c) ==
    /\ cpc[c] = "pause_call"
    /\ _is_paused' = TRUE
    /\ \/ /\ cpc' = [cpc EXCEPT ![c] = "pause_set"]
          /\ UNCHANGED << cop, cret >>
       \/ Return(c, "caught")
    /\ UNCHANGED << hlVars, _is_speaking, wordVars, threadVars, lock, engineVars,
                    requestVars, cur, creq, ctarget, workerVars, stopReturned >>

\* pause(), line 573: self.tts.Pause(); an exception is caught at line 577
\* and pause() returns
PauseCall(c) ==
    /\ cpc[c] = "pause_call"
    /\ \/ /\ cpc' = [cpc EXCEPT ![c] = "pause_set"]
          /\ UNCHANGED << cop, cret >>
       \/ Return(c, "caught")
    /\ UNCHANGED << hlVars, flagVars, wordVars, threadVars, lock, engineVars,
                    requestVars, cur, creq, ctarget, workerVars, stopReturned >>

\* pause(), lines 574-576: set the paused flag under the lock
PauseSet(c) ==
    /\ cpc[c] = "pause_set"
    /\ lock = Free
    /\ _is_paused' = TRUE
    /\ Return(c, "none")
    /\ UNCHANGED << hlVars, _is_speaking, wordVars, threadVars, lock, engineVars,
                    requestVars, cur, creq, ctarget, workerVars, stopReturned >>

\* ------------------------------------------------------------ resume()
\* resume(), lines 584-590: the guard, under the lock
ResumeCheck(c) ==
    /\ cpc[c] = "resume_check"
    /\ lock = Free
    /\ IF ~_is_speaking \/ ~_is_paused
       THEN Return(c, "none")
       ELSE /\ cpc' = [cpc EXCEPT ![c] = "resume_plan"]
            /\ UNCHANGED << cop, cret >>
    /\ UNCHANGED << hlVars, flagVars, wordVars, threadVars, lock, engineVars,
                    requestVars, cur, creq, ctarget, workerVars, stopReturned >>

\* resume(), lines 593-622: under the lock, choose the one-word-back restart
\* (Stop, Speak from the previous word, then `with self._lock:` at line 617
\* inside the block that already holds the lock) or the standard resume
ResumePlan(c) ==
    /\ cpc[c] = "resume_plan"
    /\ lock = Free
    /\ IF _current_words # 0 /\ _paused_word_index > 0
       THEN /\ lock' = CallerT(c)
            /\ engStatus' = 0
            /\ _current_word_index' = _paused_word_index - 1
            /\ cpc' = [cpc EXCEPT ![c] = "resume_relock"]
       ELSE /\ cpc' = [cpc EXCEPT ![c] = "resume_call"]
            /\ UNCHANGED << lock, engStatus, _current_word_index >>
    /\ UNCHANGED << hlVars, flagVars, _word_callback, _current_words,
                    _paused_word_index, threadVars, engCb, requestVars, cur,
                    cop, creq, ctarget, cret, workerVars, stopReturned >>

\* resume(), line 626: self.tts.Resume(); an exception is caught at line 630
\* and resume() returns
ResumeCall(c) ==
    /\ cpc[c] = "resume_call"
    /\ \/ /\ cpc' = [cpc EXCEPT ![c] = "resume_set"]
          /\ UNCHANGED << cop, cret >>
       \/ Return(c, "caught")
    /\ UNCHANGED << hlVars, flagVars, wordVars, threadVars, lock, engineVars,
                    requestVars, cur, creq, ctarget, workerVars, stopReturned >>

\* resume(), lines 627-629: clear the paused flag under the lock
ResumeSet(c) ==
    /\ cpc[c] = "resume_set"
    /\ lock = Free
    /\ _is_paused' = FALSE
    /\ Return(c, "none")
    /\ UNCHANGED << hlVars, _is_speaking, wordVars, threadVars, lock, engineVars,
                    requestVars, cur, creq, ctarget, workerVars, stopReturned >>

\* ------------------------------------------------- is_speaking(), is_paused()
\* TextSpeakerBase.is_speaking, lines 168-171
IsSpeakingCall(c) ==
    /\ cpc[c] = "is_speaking"
    /\ lock = Free
    /\ Return(c, IF is_speaking THEN "true" ELSE "false")
    /\ UNCHANGED << hlVars, flagVars, wordVars, threadVars, lock, engineVars,
                    requestVars, cur, creq, ctarget, workerVars, stopReturned >>

\* TextSpeakerBase.is_paused, lines 178-181
IsPausedCall(c) ==
    /\ cpc[c] = "is_paused"
    /\ lock = Free
    /\ Return(c, IF is_paused THEN "true" ELSE "false")
    /\ UNCHANGED << hlVars, flagVars, wordVars, threadVars, lock, engineVars,
                    requestVars, cur, creq, ctarget, workerVars, stopReturned >>

\* ------------------------------------------------------ _speak_worker
Goto(w, pc) == wpc' = [wpc EXCEPT ![w] = pc]

\* _speak_worker, lines 245-286: with a word callback, subscribe
\* on_word_boundary if the engine has SetWordCallBack; a failure of the
\* subscription is caught (line 281)
WRegister(w) ==
    /\ wpc[w] = "w_cb"
    /\ \/ engCb' = IF _word_callback # 0 /\ native THEN w ELSE engCb
       \/ /\ _word_callback # 0 /\ native
          /\ UNCHANGED engCb
    /\ Goto(w, "w_choose")
    /\ UNCHANGED << hlVars, flagVars, wordVars, threadVars, lock, engStatus,
                    requestVars, cur, callerVars, widx, wfl, wslept, stopReturned >>

\* _speak_worker, lines 291-295: use_fallback_highlighting
WChoose(w) ==
    /\ wpc[w] = "w_choose"
    /\ Goto(w, IF _word_callback # 0 /\ ~native THEN "fb_words" ELSE "w_speak")
    /\ UNCHANGED << hlVars, flagVars, wordVars, threadVars, lock, engineVars,
                    requestVars, cur, callerVars, widx, wfl, wslept, stopReturned >>

\* _speak_worker, line 299: self.tts.Speak(text, 1); an exception goes to
\* the except of line 336 and on to the finally block
WSpeak(w) ==
    /\ wpc[w] = "w_speak"
    /\ \/ /\ engStatus' = 0
          /\ Goto(w, "poll")
       \/ /\ Goto(w, "fin")
          /\ UNCHANGED engStatus
    /\ UNCHANGED << hlVars, flagVars, wordVars, threadVars, lock, engCb, requestVars,
                    cur, callerVars, widx, wfl, wslept, stopReturned >>

\* _speak_with_word_highlighting_fallback, lines 355-377: split the text into
\* words and store them under the lock
FBWords(w) ==
    /\ wpc[w] = "fb_words"
    /\ lock = Free
    /\ _current_words' = IF req[w].nwords > 0 THEN w ELSE 0
    /\ _current_word_index' = 0
    /\ Goto(w, "fb_speak")
    /\ UNCHANGED << hlVars, flagVars, _word_callback, _paused_word_index, threadVars,
                    lock, engineVars, requestVars, cur, callerVars, widx, wfl,
                    wslept, stopReturned >>

\* _speak_with_word_highlighting_fallback, line 382: self.tts.Speak(text, 1),
\* then _sapi_status_word_highlighting starts with current_word_index = 0
FBSpeak(w) ==
    /\ wpc[w] = "fb_speak"
    /\ \/ /\ engStatus' = 0
          /\ Goto(w, "hl_head")
       \/ /\ Goto(w, "fin")
          /\ UNCHANGED engStatus
    /\ UNCHANGED << hlVars, flagVars, wordVars, threadVars, lock, engCb, requestVars,
                    cur, callerVars, widx, wfl, wslept, stopReturned >>

\* _sapi_status_word_highlighting, lines 428-441: the loop condition, then
\* under the lock the check of _is_speaking and _is_paused; in the paused
\* branch the lock stays held
HLHead(w) ==
    /\ wpc[w] = "hl_head"
    /\ IF widx[w] >= req[w].nwords
       THEN /\ Goto(w, "poll")
            /\ UNCHANGED lock
       ELSE /\ lock = Free
            /\ IF ~_is_speaking
               THEN /\ Goto(w, "poll")
                    /\ UNCHANGED lock
               ELSE IF _is_paused
                    THEN /\ Goto(w, "hl_pause")
                         /\ lock' = WorkerT(w)
                    ELSE /\ Goto(w, "hl_status")
                         /\ UNCHANGED lock
    /\ UNCHANGED << hlVars, flagVars, wordVars, threadVars, engineVars, requestVars,
                    cur, callerVars, widx, wfl, wslept, stopReturned >>

\* _sapi_status_word_highlighting, lines 442-456: inside the same
\* `with self._lock:` block, sleep 0.05 s while paused and speaking; afterwards
\* break if stopped, else shift the remaining expected times and continue
HLPause(w) ==
    /\ wpc[w] = "hl_pause"
    /\ lock = WorkerT(w)
    /\ IF _is_paused /\ _is_speaking
       THEN /\ wslept' = [wslept EXCEPT ![w] = TRUE]
            /\ UNCHANGED << wpc, lock >>
       ELSE /\ wslept' = [wslept EXCEPT ![w] = FALSE]
            /\ lock' = Free
            /\ Goto(w, IF ~_is_speaking THEN "poll" ELSE "hl_head")
    /\ UNCHANGED << hlVars, flagVars, wordVars, threadVars, engineVars, requestVars,
                    cur, callerVars, widx, wfl, stopReturned >>

\* _sapi_status_word_highlighting, lines 459-471: every 200 ms GetStatus,
\* which may raise; status 1 sets sapi_completion_detected and starts the
\* quick highlighting at the current word
HLStatus(w) ==
    /\ wpc[w] = "hl_status"
    /\ \/ /\ Goto(w, "hl_word")
          /\ UNCHANGED wfl
       \/ /\ Goto(w, "hl_error")
          /\ UNCHANGED wfl
       \/ /\ engStatus = 1
          /\ Goto(w, "hl_flush")
          /\ wfl' = [wfl EXCEPT ![w] = widx[w]]
    /\ UNCHANGED << hlVars, flagVars, wordVars, threadVars, lock, engineVars,
                    requestVars, cur, callerVars, widx, wslept, stopReturned >>

\* _sapi_status_word_highlighting, lines 479-480: the bare except passes over
\* the exception of GetStatus; the iteration goes on at line 483
HLError(w) ==
    /\ wpc[w] = "hl_error"
    /\ Goto(w, "hl_word")
    /\ UNCHANGED << hlVars, flagVars, wordVars, threadVars, lock, engineVars,
                    requestVars, cur, callerVars, widx, wfl, wslept, stopReturned >>

\* _sapi_status_word_highlighting, lines 472-477: one round of the quick
\* highlighting loop: the callback, if self._word_callback is set, is invoked
\* with word wfl[w]; after the last word the break of line 477 leaves the
\* loop.  A raising callback is passed over by the bare except of line 479:
\* the iteration goes on at line 483 with sapi_completion_detected set
HLFlush(w) ==
    /\ wpc[w] = "hl_flush"
    /\ \/ /\ wfl' = [wfl EXCEPT ![w] = IF wfl[w] + 1 >= req[w].nwords THEN 0
                                       ELSE wfl[w] + 1]
          /\ Goto(w, IF wfl[w] + 1 >= req[w].nwords THEN "poll" ELSE "hl_flush")
       \/ /\ _word_callback # 0
          /\ wfl' = [wfl EXCEPT ![w] = 0]
          /\ Goto(w, "hl_word_last")
    /\ UNCHANGED << hlVars, flagVars, wordVars, threadVars, lock, engineVars,
                    requestVars, cur, callerVars, widx, wslept, stopReturned >>

\* the variant of HLWord that stores the index of the next word in
\* self._current_word_index as the highlighting advances
HLWordStoresIndex(w) ==
    /\ wpc[w] \in {"hl_word", "hl_word_last"}
    /\ \/ UNCHANGED << widx, _current_word_index >>
       \/ /\ widx' = [widx EXCEPT ![w] = widx[w] + 1]
          /\ _current_word_index' = widx[w] + 1
    /\ Goto(w, IF wpc[w] = "hl_word" THEN "hl_head" ELSE "poll")
    /\ UNCHANGED << hlVars, flagVars, _word_callback, _current_words,
                    _paused_word_index, threadVars, lock, engineVars,
                    requestVars, cur, callerVars, wfl, wslept, stopReturned >>

\* _sapi_status_word_highlighting, lines 483-527: when the expected time of
\* the current word has come, the callback, if self._word_callback is set, is
\* invoked with word widx[w] (an exception is caught, line 517) and the index
\* advances; then sleep at most 100 ms.  With sapi_completion_detected set
\* the loop condition of line 428 ends the loop
HLWord(w) ==
    /\ wpc[w] \in {"hl_word", "hl_word_last"}
    /\ \/ UNCHANGED widx
       \/ widx' = [widx EXCEPT ![w] = widx[w] + 1]
    /\ Goto(w, IF wpc[w] = "hl_word" THEN "hl_head" ELSE "poll")
    /\ UNCHANGED << hlVars, flagVars, wordVars, threadVars, lock, engineVars,
                    requestVars, cur, callerVars, wfl, wslept, stopReturned >>

\* _speak_worker, lines 302-314: under the lock, leave when _is_speaking is
\* false; when paused, sleep 0.1 s before the lock is released
Poll(w) ==
    /\ wpc[w] = "poll"
    /\ lock = Free
    /\ IF ~_is_speaking
       THEN /\ Goto(w, "fin")
            /\ UNCHANGED lock
       ELSE IF _is_paused
            THEN /\ Goto(w, "poll_sleep")
                 /\ lock' = WorkerT(w)
            ELSE /\ Goto(w, "poll_status")
                 /\ UNCHANGED lock
    /\ UNCHANGED << hlVars, flagVars, wordVars, threadVars, engineVars, requestVars,
                    cur, callerVars, widx, wfl, wslept, stopReturned >>

\* _speak_worker, lines 312-314: time.sleep(0.1) ends, continue releases the lock
PollSleep(w) ==
    /\ wpc[w] = "poll_sleep"
    /\ lock = WorkerT(w)
    /\ lock' = Free
    /\ Goto(w, "poll")
    /\ UNCHANGED << hlVars, flagVars, wordVars, threadVars, engineVars, requestVars,
                    cur, callerVars, widx, wfl, wslept, stopReturned >>

\* _speak_worker, lines 317-334: GetStatus("RunningState") without the lock;
\* status 0 sleeps and polls again, an exception goes to the handler of line 329
PollStatus(w) ==
    /\ wpc[w] = "poll_status"
    /\ \/ /\ engStatus = 0
          /\ Goto(w, "poll")
       \/ Goto(w, "poll_error")
       \/ /\ engStatus = 1
          /\ Goto(w, "poll_confirm")
    /\ UNCHANGED << hlVars, flagVars, wordVars, threadVars, lock, engineVars,
                    requestVars, cur, callerVars, widx, wfl, wslept, stopReturned >>

\* the handler of lines 329-331 as a fail-stop: the exception ends the polling
PollErrorStops(w) ==
    /\ wpc[w] = "poll_error"
    /\ Goto(w, "fin")
    /\ UNCHANGED << hlVars, flagVars, wordVars, threadVars, lock, engineVars,
                    requestVars, cur, callerVars, widx, wfl, wslept, stopReturned >>

\* _speak_worker, lines 329-334: the exception of GetStatus is caught; sleep
\* and poll again
PollError(w) ==
    /\ wpc[w] = "poll_error"
    /\ Goto(w, "poll")
    /\ UNCHANGED << hlVars, flagVars, wordVars, threadVars, lock, engineVars,
                    requestVars, cur, callerVars, widx, wfl, wslept, stopReturned >>

\* the confirmation of lines 322-328 with its test inverted: break only if paused
PollConfirmInverted(w) ==
    /\ wpc[w] = "poll_confirm"
    /\ lock = Free
    /\ Goto(w, IF _is_paused THEN "fin" ELSE "poll")
    /\ UNCHANGED << hlVars, flagVars, wordVars, threadVars, lock, engineVars,
                    requestVars, cur, callerVars, widx, wfl, wslept, stopReturned >>

\* _speak_worker, lines 322-328: on status 1, break unless paused
PollConfirm(w) ==
    /\ wpc[w] = "poll_confirm"
    /\ lock = Free
    /\ Goto(w, IF ~_is_paused THEN "fin" ELSE "poll")
    /\ UNCHANGED << hlVars, flagVars, wordVars, threadVars, lock, engineVars,
                    requestVars, cur, callerVars, widx, wfl, wslept, stopReturned >>

\* _speak_worker, lines 340-345: the finally block clears the state under the lock
WFinally(w) ==
    /\ wpc[w] = "fin"
    /\ lock = Free
    /\ _is_speaking' = FALSE
    /\ _is_paused' = FALSE
    /\ _word_callback' = 0
    /\ Goto(w, "unreg")
    /\ UNCHANGED << hlVars, _current_words, _current_word_index, _paused_word_index,
                    threadVars, lock, engineVars, requestVars, cur, callerVars,
                    widx, wfl, wslept, stopReturned >>

\* the end of a worker thread that leaves its entry in the registry
WEndsRegistered(w) ==
    /\ wpc[w] = "unreg"
    /\ Goto(w, "done")
    /\ UNCHANGED << hlVars, flagVars, wordVars, threadVars, lock, engineVars,
                    requestVars, cur, callerVars, widx, wfl, wslept, stopReturned >>

\* _speak_worker, line 346, unregister_speech_thread: the thread ends
WUnregister(w) ==
    /\ wpc[w] = "unreg"
    /\ registry' = registry \ {w}
    /\ Goto(w, "done")
    /\ UNCHANGED << hlVars, flagVars, wordVars, _speech_thread, lock, engineVars,
                    requestVars, cur, callerVars, widx, wfl, wslept, stopReturned >>

\* ------------------------------------------------------------ the engine
\* the engine finishes the utterance: RunningState goes from 0 to 1
EngineComplete ==
    /\ engStatus = 0
    /\ engStatus' = 1
    /\ UNCHANGED << hlVars, flagVars, wordVars, threadVars, lock, engCb, requestVars,
                    cur, callerVars, workerVars, stopReturned >>

\* ------------------------------------------------------------ specification
\* the steps of a public method that has been called
CallerRun(c) ==
    \/ SpeakSet(c) \/ SpeakRate(c) \/ SpeakStart(c)
    \/ StopCheck(c) \/ StopEngine(c) \/ StopUnsub(c) \/ StopClear(c) \/ StopError(c)
    \/ PauseCheck(c) \/ PauseSave(c) \/ PauseCall(c) \/ PauseSet(c)
    \/ ResumeCheck(c) \/ ResumePlan(c) \/ ResumeCall(c) \/ ResumeSet(c)
    \/ IsSpeakingCall(c) \/ IsPausedCall(c)

CallerStep(c) ==
    \/ \E op \in {"pause", "resume", "stop", "is_speaking", "is_paused"} : Call(c, op)
    \/ \E cb \in BOOLEAN, n \in WordCounts : SpeakCall(c, cb, n)
    \/ CallerRun(c)

WorkerStep(w) ==
    \/ WRegister(w) \/ WChoose(w) \/ WSpeak(w)
    \/ FBWords(w) \/ FBSpeak(w)
    \/ HLHead(w) \/ HLPause(w) \/ HLStatus(w) \/ HLError(w) \/ HLFlush(w)
    \/ HLWord(w)
    \/ Poll(w) \/ PollSleep(w) \/ PollStatus(w) \/ PollError(w) \/ PollConfirm(w)
    \/ WFinally(w) \/ WUnregister(w)

Next ==
    \/ \E c \in Callers : CallerStep(c)
    \/ \E w \in Workers : WorkerStep(w)
    \/ EngineComplete

Spec == Init /\ [][Next]_vars

\* ------------------------------------------------ one request, with fairness
\* behaviours with a single speak() call, followed by any other calls
SingleCallerStep(c) ==
    \/ \E op \in {"pause", "resume", "stop", "is_speaking", "is_paused"} : Call(c, op)
    \/ /\ nextReq = 1
       /\ \E cb \in BOOLEAN, n \in WordCounts : SpeakCall(c, cb, n)
    \/ CallerRun(c)

SingleNext ==
    \/ \E c \in Callers : SingleCallerStep(c)
    \/ \E w \in Workers : WorkerStep(w)
    \/ EngineComplete

\* _speak_worker, lines 318-320: GetStatus("RunningState") answers 1
PollStatusCompleted(w) == PollStatus(w) /\ wpc'[w] = "poll_confirm"

\* every thread that can run does run, a thread waiting for the lock gets it
\* if it is free again and again, the engine finishes what it speaks, and a
\* status poll of a completed engine does not raise for ever
Fairness ==
    /\ \A c \in Callers : SF_vars(CallerRun(c))
    /\ \A w \in Workers : SF_vars(WorkerStep(w))
    /\ \A w \in Workers : SF_vars(PollStatusCompleted(w))
    /\ WF_vars(EngineComplete)

FairSpec == Init /\ [][SingleNext]_vars /\ Fairness


\* ------------------------------------- the fallback highlighting with its data
\* the characters of a text: one that \S matches and one that it does not
Chars == {"a", " "}
IsSpace(ch) == ch = " "

Texts == UNION {[1..n -> Chars] : n \in 0..MaxLen}

\* the end of the match of \S+ that starts at position p (1-based): the
\* first position after it
RECURSIVE RunEnd(_, _)
RunEnd(t, p) ==
    IF p > Len(t) \/ IsSpace(t[p]) THEN p ELSE RunEnd(t, p + 1)

\* _speak_with_word_highlighting_fallback, lines 358-371:
\* re.finditer(r'\S+', text) from position p on, each match with its
\* 0-based start and its length
RECURSIVE FindAll(_, _)
FindAll(t, p) ==
    IF p > Len(t) THEN << >>
    ELSE IF IsSpace(t[p]) THEN FindAll(t, p + 1)
    ELSE << [start |-> p - 1, length |-> RunEnd(t, p) - p] >>
             \o FindAll(t, RunEnd(t, p))

\* the local list `words` of the run
words == FindAll(text, 1)

\* self._word_callback(word['start'], word['length']) for the word at
\* 0-based index i
Callback(i) ==
    delivered' = Append(delivered, [offset |-> words[i + 1].start,
                                    length |-> words[i + 1].length])

\* the variables the run does not touch
hlFrame == << _word_callback, _current_words, _current_word_index,
              _paused_word_index, threadVars, engCb, requestVars, cur,
              callerVars, workerVars, stopReturned, rateVars, driftVars,
              extVars >>

\* a run starts for any text
HLInit ==
    /\ SpeakerInit
    /\ ExtRest
    /\ text \in Texts
    /\ hpc = "start"
    /\ current_word_index = 0
    /\ flush_i = 0
    /\ sapi_completion_detected = FALSE
    /\ delivered = << >>
    /\ now = 0
    /\ current_time = 0
    /\ expected_time = << >>
    /\ pause_start = 0
    /\ pause_began = 0
    /\ owed = << >>
    /\ speed = << 1, 1 >>
    /\ sapi_rate = 0
    /\ word_lengths = << >>
    /\ timing_corrections = << >>

\* _sapi_status_word_highlighting, lines 411-418: the expected time of word i
\* (0-based), in ticks after the start of the speech: one word per tick
ExpectedAt(i) == i

\* speak(), lines 218-222, has accepted the request;
\* _speak_with_word_highlighting_fallback, line 382, starts the speech and
\* _sapi_status_word_highlighting, lines 410-425, computes the expected times
\* and starts the loop at word 0
RunSpeak ==
    /\ hpc = "start"
    /\ _is_speaking' = TRUE
    /\ _is_paused' = FALSE
    /\ engStatus' = 0
    /\ expected_time' = [j \in 1..Len(words) |-> ExpectedAt(j - 1)]
    /\ owed' = [j \in 1..Len(words) |-> ExpectedAt(j - 1)]
    /\ hpc' = "head"
    /\ UNCHANGED << hlFrame, lock, text, current_word_index, flush_i,
                    sapi_completion_detected, delivered, now, current_time,
                    pause_start, pause_began >>

\* _sapi_status_word_highlighting, lines 428-442: the loop condition, the
\* reading of the clock, and under the lock the tests of _is_speaking and
\* _is_paused; in the paused branch the lock stays held
RunHead ==
    /\ hpc = "head"
    /\ IF ~(current_word_index < Len(words) /\ ~sapi_completion_detected)
       THEN /\ hpc' = "end"
            /\ UNCHANGED << lock, current_time, pause_start >>
       ELSE /\ lock = Free
            /\ current_time' = now
            /\ IF ~_is_speaking
               THEN /\ hpc' = "end"
                    /\ UNCHANGED << lock, pause_start >>
               ELSE IF _is_paused
                    THEN /\ hpc' = "pause_wait"
                         /\ lock' = WorkerT(1)
                         /\ pause_start' = now
                    ELSE /\ hpc' = "status"
                         /\ UNCHANGED << lock, pause_start >>
    /\ UNCHANGED << hlFrame, flagVars, engStatus, text, current_word_index,
                    flush_i, sapi_completion_detected, delivered, now,
                    expected_time, pause_began, owed >>

\* _sapi_status_word_highlighting, lines 443-456, inside the lock block of
\* line 432: sleep 0.05 s while paused and speaking; then break if stopped,
\* else add the measured pause to the expected time of every word from the
\* current one on, and continue
RunPauseWait ==
    /\ hpc = "pause_wait"
    /\ lock = WorkerT(1)
    /\ IF _is_paused /\ _is_speaking
       THEN /\ now < MaxTime
            /\ now' = now + 1
            /\ UNCHANGED << lock, hpc, expected_time >>
       ELSE /\ lock' = Free
            /\ UNCHANGED now
            /\ IF ~_is_speaking
               THEN /\ hpc' = "end"
                    /\ UNCHANGED expected_time
               ELSE /\ hpc' = "head"
                    /\ expected_time' =
                          [j \in 1..Len(words) |->
                              IF j > current_word_index
                              THEN expected_time[j] + (now - pause_start)
                              ELSE expected_time[j]]
    /\ UNCHANGED << hlFrame, flagVars, engStatus, text, current_word_index,
                    flush_i, sapi_completion_detected, delivered, current_time,
                    pause_start, pause_began, owed >>

\* _sapi_status_word_highlighting, lines 459-471: no poll is due, or the poll
\* raises or answers 0; or it answers 1: sapi_completion_detected is set and
\* the quick highlighting starts at the current word
RunStatus ==
    /\ hpc = "status"
    /\ \/ /\ hpc' = "timed"
          /\ UNCHANGED << flush_i, sapi_completion_detected >>
       \/ /\ engStatus = 1
          /\ sapi_completion_detected' = TRUE
          /\ flush_i' = current_word_index
          /\ hpc' = "flush"
    /\ UNCHANGED << hlFrame, flagVars, lock, engStatus, text,
                    current_word_index, delivered, timeVars >>

\* _sapi_status_word_highlighting, lines 472-477: one round of
\* `for i in range(current_word_index, len(words))`, then the break; a raising
\* callback goes to the bare except of line 479 and on to line 483
RunFlush ==
    /\ hpc = "flush"
    /\ IF flush_i >= Len(words)
       THEN /\ hpc' = "end"
            /\ UNCHANGED << flush_i, delivered >>
       ELSE /\ Callback(flush_i)
            /\ \/ /\ flush_i' = flush_i + 1
                  /\ UNCHANGED hpc
               \/ /\ hpc' = "timed"
                  /\ UNCHANGED flush_i
    /\ UNCHANGED << hlFrame, flagVars, lock, engStatus, text,
                    current_word_index, sapi_completion_detected, timeVars >>

\* _sapi_status_word_highlighting, lines 483-527: if the expected time of the
\* current word has come, invoke the callback and advance the index, whether
\* the callback raises (line 517) or not; then sleep.  The adaptive
\* correction of lines 498-512 is left to DriftTimed, which has the expected
\* times as fractions of a second
RunTimed ==
    /\ hpc = "timed"
    /\ IF current_time >= expected_time[current_word_index + 1]
       THEN /\ Callback(current_word_index)
            /\ current_word_index' = current_word_index + 1
       ELSE UNCHANGED << current_word_index, delivered >>
    /\ hpc' = "head"
    /\ UNCHANGED << hlFrame, flagVars, lock, engStatus, text, flush_i,
                    sapi_completion_detected, timeVars >>

\* the engine finishes the utterance during the run
RunEngineComplete ==
    /\ hpc \in {"head", "status", "timed"}
    /\ ~_is_paused
    /\ engStatus = 0
    /\ engStatus' = 1
    /\ UNCHANGED << hlFrame, flagVars, lock, hlVars >>

\* time passes while the loop runs or sleeps (line 527)
Tick ==
    /\ hpc \in {"head", "status", "flush", "timed"}
    /\ now < MaxTime
    /\ now' = now + 1
    /\ UNCHANGED << hlFrame, flagVars, lock, engStatus, runVars, current_time,
                    expected_time, pause_start, pause_began, owed >>

\* pause() of the caller during the run: lines 554-576, taken as one step
RunPause ==
    /\ hpc \in {"head", "status", "flush", "timed"}
    /\ lock = Free
    /\ _is_speaking /\ ~_is_paused
    /\ _is_paused' = TRUE
    /\ pause_began' = now
    /\ UNCHANGED << hlFrame, _is_speaking, lock, engStatus, runVars, now,
                    current_time, expected_time, pause_start, owed >>

\* resume() of the caller during the run: lines 584-629, taken as one step;
\* the pause has lasted now - pause_began
RunResume ==
    /\ hpc \in {"head", "status", "flush", "timed"}
    /\ lock = Free
    /\ _is_speaking /\ _is_paused
    /\ _is_paused' = FALSE
    /\ owed' = [j \in 1..Len(words) |->
                   IF j > current_word_index THEN owed[j] + (now - pause_began)
                   ELSE owed[j]]
    /\ UNCHANGED << hlFrame, _is_speaking, lock, engStatus, runVars, now,
                    current_time, expected_time, pause_start, pause_began >>

HLNext ==
    \/ RunSpeak \/ RunHead \/ RunPauseWait \/ RunStatus \/ RunFlush \/ RunTimed
    \/ RunEngineComplete \/ Tick \/ RunPause \/ RunResume

HLSpec == HLInit /\ [][HLNext]_vars

\* ==================================================================== claims
\* the steps at which a worker calls into the engine (Speak, GetStatus)
EngineCallPcs == {"w_speak", "fb_speak", "hl_status", "poll_status"}

\* the steps of the fallback highlighting loop
HighlightPcs == {"hl_head", "hl_pause", "hl_status", "hl_error", "hl_flush",
                 "hl_word", "hl_word_last"}

\* worker w invokes the word callback in this step
Delivers(w) ==
    /\ _word_callback # 0
    /\ \/ wpc[w] \in {"hl_word", "hl_word_last"} /\ widx'[w] # widx[w]
       \/ wpc[w] = "hl_flush" /\ wpc'[w] \in {"hl_flush", "poll", "hl_word_last"}
                              /\ << wpc[w], wfl[w] >>' # << wpc[w], wfl[w] >>

\* C1: when the worker of a later speak() is about to call into the engine,
\* no worker of an earlier speak() is still alive
C1_PriorWorkerStopped ==
    \A w1, w2 \in Workers :
        (w1 < w2 /\ wpc[w2] \in EngineCallPcs) => ~Alive(w1)

\* C2: every call of a public method eventually returns
C2_CallsReturn ==
    \A c \in Callers : (cpc[c] # "idle") ~> (cpc[c] = "idle")

\* C2: the worker never keeps the lock while it waits
C2_LockNotHeldWaiting ==
    \A w \in Workers : lock # WorkerT(w)

\* C3: when resume() is called while the fallback highlighting loop waits out
\* a pause, the state returns to Speaking or resume() returns otherwise, and
\* the worker leaves the pause wait
C3_PauseResumeRecovers ==
    \A c \in Callers : \A w \in Workers :
        (cop[c] = "resume" /\ wpc[w] = "hl_pause")
            ~> (StateSpeaking \/ cpc[c] = "idle" \/ wpc[w] # "hl_pause")

\* C4: is_speaking() and is_paused() are never both true; is_speaking() is
\* true only in the Speaking state; in the Paused state is_speaking() is
\* false and is_paused() is true
C4_NeverBothTrue ==
    /\ ~(is_speaking /\ is_paused)
    /\ (is_speaking => StateSpeaking)
    /\ (StatePaused => ~is_speaking /\ is_paused)

\* is_paused() has answered true for a paused request
C4_Witness ==
    /\ StatePaused
    /\ \E c \in Callers : cpc[c] = "idle" /\ cret[c] = "true"

\* C5: the paused flag implies an active request
C5_PausedImpliesActive == _is_paused => _is_speaking

\* C6: pause() called in a state other than Speaking returns without an
\* engine call and without a change of state; pause() whose engine Pause call
\* succeeded returns in the Paused state
C6_PauseContract ==
    [][\A c \in Callers :
        /\ (cpc[c] = "pause_check" /\ cpc'[c] # "pause_check" /\ ~StateSpeaking)
               => /\ cpc'[c] = "idle"
                  /\ UNCHANGED << flagVars, wordVars, engineVars >>
        /\ (cpc[c] = "pause_set" /\ cpc'[c] = "idle") => StatePaused'
      ]_vars

\* C7: resume() called in a state other than Paused returns without an engine
\* call and without a change of state; resume() whose engine Resume call
\* succeeded returns in the Speaking state
C7_ResumeContract ==
    [][\A c \in Callers :
        /\ (cpc[c] = "resume_check" /\ cpc'[c] # "resume_check" /\ ~StatePaused)
               => /\ cpc'[c] = "idle"
                  /\ UNCHANGED << flagVars, wordVars, engineVars >>
        /\ (cpc[c] = "resume_set" /\ cpc'[c] = "idle") => StateSpeaking'
      ]_vars

\* C8: whenever stop() returns to its caller, no exception comes out and the
\* state is Idle: neither speaking nor paused
C8_StopLeavesIdle ==
    [][\A c \in Callers :
        (cop[c] = "stop" /\ cpc[c] # "idle" /\ cpc'[c] = "idle")
            => (StateIdle' /\ cret'[c] # "raised")
      ]_vars

\* C9: when stop() has returned for a request, the worker thread of that
\* request has ended
C9_StopWaitsForWorker ==
    \A w \in stopReturned : ~Alive(w)

\* C10: once stop() has returned for a request, the worker of that request
\* does not invoke the word callback again
C10_NoCallbackAfterStop ==
    [][\A w \in Workers : Delivers(w) => w \notin stopReturned]_vars

\* C11: while the state is Paused, a worker in its polling loop does not
\* leave it for the finally block, and no worker starts the quick highlighting
\* of the remaining words
C11_PausedIgnoresCompleted ==
    [][StatePaused =>
        \A w \in Workers :
           /\ (wpc[w] \in {"poll", "poll_status", "poll_error", "poll_confirm"}
                  => wpc'[w] # "fin")
           /\ (wpc[w] # "hl_flush" => wpc'[w] # "hl_flush")
      ]_vars

\* a worker in the polling loop of _speak_worker
PollPcs == {"poll", "poll_sleep", "poll_status", "poll_error", "poll_confirm"}

\* C12: when the engine has completed, the request is not paused and its
\* worker is in the polling loop, then, with no public method called or
\* running, the worker ends unregistered and the state is Idle
C12_CompletionDetected ==
    \A w \in Workers :
        (wpc[w] \in PollPcs /\ engStatus = 1 /\ cur = w /\ StateSpeaking
             /\ \A c \in Callers : cpc[c] = "idle")
          ~> \/ (wpc[w] = "done" /\ w \notin registry /\ StateIdle)
             \/ \E c \in Callers : cpc[c] # "idle"

\* the worker has read Completed in its polling loop while the request is
\* not paused and no public method is running
C12_Witness ==
    \E w \in Workers :
        /\ wpc[w] = "poll_confirm" /\ engStatus = 1 /\ cur = w /\ StateSpeaking
        /\ \A c \in Callers : cpc[c] = "idle"

\* C13: every pair delivered by the fallback highlighting lies within the
\* text, is a maximal run of non-whitespace characters of it, and the offsets
\* are delivered in non-decreasing order
C13_PairsWithinText ==
    \A k \in 1..Len(delivered) :
        LET d == delivered[k] IN
        /\ 0 <= d.offset /\ d.length > 0 /\ d.offset + d.length <= Len(text)
        /\ \A j \in (d.offset + 1)..(d.offset + d.length) : ~IsSpace(text[j])
        /\ (d.offset = 0 \/ IsSpace(text[d.offset]))
        /\ (d.offset + d.length = Len(text)
               \/ IsSpace(text[d.offset + d.length + 1]))
        /\ (k > 1 => delivered[k - 1].offset <= d.offset)

\* C14: the words of one request are delivered to the callback in strictly
\* increasing order, each at most once
C14_StrictlyIncreasing ==
    \A k \in 2..Len(delivered) : delivered[k - 1].offset < delivered[k].offset

\* C15: when the quick highlighting that follows an early completion ends,
\* the loop ends with it, and every word of the text has been delivered
\* exactly once, in order
C15_FlushDeliversRest ==
    [][(hpc = "flush" /\ hpc' # "flush") =>
          /\ hpc' = "end"
          /\ Len(delivered') = Len(words)
          /\ \A j \in 1..Len(words) : delivered'[j].offset = words[j].start
      ]_vars

\* C17: a raising callback does not abort the scheduling: when the run has
\* ended, the callback has been invoked for every word exactly once
C17_AllWordsAttempted ==
    hpc = "end" =>
        /\ Len(delivered) = Len(words)
        /\ \A j \in 1..Len(words) :
              delivered[j] = [offset |-> words[j].start,
                              length |-> words[j].length]

\* C16: a word highlighted by the timed path fires no earlier than its
\* expected time before any pause plus the durations of the pauses that ended
\* with resume() while the word was still to be highlighted
C16_ShiftByPause ==
    [][(hpc = "timed" /\ current_word_index' # current_word_index)
          => now >= owed[current_word_index + 1]]_vars

C19_EngineFailureKeepsState ==
    [][\A c \in Callers :
        /\ (cpc[c] = "pause_call" /\ cpc'[c] = "idle")
              => /\ cret'[c] # "raised"
                 /\ UNCHANGED flagVars
                 /\ (_is_speaking' => StateSpeaking')
        /\ (cpc[c] = "resume_call" /\ cpc'[c] = "idle")
              => /\ cret'[c] # "raised"
                 /\ UNCHANGED flagVars
                 /\ (_is_speaking' => StatePaused')
      ]_vars

\* pause() has returned after the engine's Pause call threw, and the request
\* is still Speaking
C19_Witness ==
    \E c \in Callers :
        cpc[c] = "idle" /\ cret[c] = "caught" /\ StateSpeaking /\ cur # 0

\* C20: no call of speak() lets an exception out to its caller (in the model
\* speak() is the only method that can)
C20_SpeakNeverRaises ==
    \A c \in Callers : cret[c] # "raised"

\* ------------------------------------------------------------ Pyttsx3Speaker
\* The basic engine variant, lines 692-777.  It has the fields of
\* TextSpeakerBase, so it is modelled over the same variables: engStatus is 0
\* while the event loop of runAndWait() speaks, engCb is the request whose
\* on_word closure is connected, and ctarget is the request that was active
\* when the call began (0 for none).

\* a caller thread invokes Pyttsx3Speaker.pause(), resume() or stop():
\* pause() is self.stop(), line 754
P3Call(c, op) ==
    /\ cpc[c] = "idle"
    /\ cop' = [cop EXCEPT ![c] = op]
    /\ cret' = [cret EXCEPT ![c] = "none"]
    /\ ctarget' = [ctarget EXCEPT ![c] = IF _is_speaking THEN cur ELSE 0]
    /\ cpc' = [cpc EXCEPT ![c] = IF op = "resume" THEN "p3_resume"
                                  ELSE "p3_stop_engine"]
    /\ UNCHANGED << hlVars, flagVars, wordVars, threadVars, lock, engineVars,
                    requestVars, cur, creq, workerVars, stopReturned >>

\* a caller thread invokes Pyttsx3Speaker.speak(), which begins with
\* self.stop(), line 704
P3SpeakCall(c, cb, n) ==
    /\ cpc[c] = "idle"
    /\ nextReq <= MaxRequests
    /\ creq' = [creq EXCEPT ![c] = nextReq]
    /\ req' = [req EXCEPT ![nextReq] = [cb |-> cb, nwords |-> n]]
    /\ nextReq' = nextReq + 1
    /\ cop' = [cop EXCEPT ![c] = "speak"]
    /\ cret' = [cret EXCEPT ![c] = "none"]
    /\ ctarget' = [ctarget EXCEPT ![c] = 0]
    /\ cpc' = [cpc EXCEPT ![c] = "p3_stop_engine"]
    /\ UNCHANGED << hlVars, flagVars, wordVars, threadVars, lock, engineVars, native,
                    cur, workerVars, stopReturned >>

\* the body of Pyttsx3Speaker.stop() ends: back into speak() or to the caller
P3StopDone(c, res) ==
    IF cop[c] = "speak"
    THEN /\ cpc' = [cpc EXCEPT ![c] = "p3_speak_set"]
         /\ UNCHANGED << cop, cret, stopReturned >>
    ELSE /\ Return(c, res)
         /\ stopReturned' = IF ctarget[c] = 0 THEN stopReturned
                            ELSE stopReturned \cup {ctarget[c]}

\* Pyttsx3Speaker.stop(), line 763: self.engine.stop(); if it raises, the
\* except branch of lines 769-770 prints and stop() returns
P3StopEngine(c) ==
    /\ cpc[c] = "p3_stop_engine"
    /\ \/ /\ engStatus' = 1
          /\ cpc' = [cpc EXCEPT ![c] = "p3_stop_disconnect"]
          /\ UNCHANGED << cop, cret, stopReturned >>
       \/ /\ P3StopDone(c, "caught")
          /\ UNCHANGED engStatus
    /\ UNCHANGED << hlVars, flagVars, wordVars, threadVars, lock, engCb, requestVars,
                    cur, creq, ctarget, workerVars >>

\* Pyttsx3Speaker.stop(), lines 764-765: with a word callback,
\* self.engine.disconnect('started-word'); if it raises, the except branch
\* prints and stop() returns
P3StopDisconnect(c) ==
    /\ cpc[c] = "p3_stop_disconnect"
    /\ IF _word_callback = 0
       THEN /\ cpc' = [cpc EXCEPT ![c] = "p3_stop_clear"]
            /\ UNCHANGED << engCb, cop, cret, stopReturned >>
       ELSE \/ /\ engCb' = 0
               /\ cpc' = [cpc EXCEPT ![c] = "p3_stop_clear"]
               /\ UNCHANGED << cop, cret, stopReturned >>
            \/ /\ P3StopDone(c, "caught")
               /\ UNCHANGED engCb
    /\ UNCHANGED << hlVars, flagVars, wordVars, threadVars, lock, engStatus,
                    requestVars, cur, creq, ctarget, workerVars >>

\* Pyttsx3Speaker.stop(), lines 766-768: clear both flags under the lock
P3StopClear(c) ==
    /\ cpc[c] = "p3_stop_clear"
    /\ lock = Free
    /\ _is_speaking' = FALSE
    /\ _is_paused' = FALSE
    /\ P3StopDone(c, "none")
    /\ UNCHANGED << hlVars, wordVars, threadVars, lock, engineVars, requestVars, cur,
                    creq, ctarget, workerVars >>

\* Pyttsx3Speaker.resume(), lines 756-758: pass
P3Resume(c) ==
    /\ cpc[c] = "p3_resume"
    /\ Return(c, "none")
    /\ UNCHANGED << hlVars, flagVars, wordVars, threadVars, lock, engineVars,
                    requestVars, cur, creq, ctarget, workerVars, stopReturned >>

\* Pyttsx3Speaker.speak(), lines 706-710: accept the request under the lock
P3SpeakSet(c) ==
    /\ cpc[c] = "p3_speak_set"
    /\ lock = Free
    /\ _is_speaking' = TRUE
    /\ _is_paused' = FALSE
    /\ _word_callback' = IF req[creq[c]].cb THEN creq[c] ELSE 0
    /\ cur' = creq[c]
    /\ cpc' = [cpc EXCEPT ![c] = "p3_speak_rate"]
    /\ UNCHANGED << hlVars, _current_words, _current_word_index, _paused_word_index,
                    threadVars, lock, engineVars, requestVars, cop, creq,
                    ctarget, cret, workerVars, stopReturned >>

\* Pyttsx3Speaker.speak(), lines 712-716: _set_voice (its errors are caught)
\* and self.engine.setProperty('rate', ...), which is outside any try
P3SpeakRate(c) ==
    /\ cpc[c] = "p3_speak_rate"
    /\ \/ /\ cpc' = [cpc EXCEPT ![c] = "p3_speak_connect"]
          /\ UNCHANGED << cop, cret, creq >>
       \/ /\ Return(c, "raised")
          /\ creq' = [creq EXCEPT ![c] = 0]
    /\ UNCHANGED << hlVars, flagVars, wordVars, threadVars, lock, engineVars,
                    requestVars, cur, ctarget, workerVars, stopReturned >>

\* Pyttsx3Speaker.speak(), lines 718-725: with a word callback,
\* self.engine.connect('started-word', on_word), outside any try
P3SpeakConnect(c) ==
    /\ cpc[c] = "p3_speak_connect"
    /\ IF _word_callback = 0
       THEN /\ cpc' = [cpc EXCEPT ![c] = "p3_speak_start"]
            /\ UNCHANGED << engCb, cop, cret, creq >>
       ELSE \/ /\ engCb' = creq[c]
               /\ cpc' = [cpc EXCEPT ![c] = "p3_speak_start"]
               /\ UNCHANGED << cop, cret, creq >>
            \/ /\ Return(c, "raised")
               /\ creq' = [creq EXCEPT ![c] = 0]
               /\ UNCHANGED engCb
    /\ UNCHANGED << hlVars, flagVars, wordVars, threadVars, lock, engStatus,
                    requestVars, cur, ctarget, workerVars, stopReturned >>

\* Pyttsx3Speaker.speak(), lines 727-734: create, register and start the worker
P3SpeakStart(c) ==
    /\ cpc[c] = "p3_speak_start"
    /\ _speech_thread' = creq[c]
    /\ registry' = registry \cup {creq[c]}
    /\ wpc' = [wpc EXCEPT ![creq[c]] = "p3_say"]
    /\ creq' = [creq EXCEPT ![c] = 0]
    /\ Return(c, "none")
    /\ UNCHANGED << hlVars, flagVars, wordVars, lock, engineVars, requestVars, cur,
                    ctarget, widx, wfl, wslept, stopReturned >>

\* Pyttsx3Speaker._speak_worker, lines 739-741: self.engine.say(text) and the
\* start of self.engine.runAndWait(); an exception goes to the finally block
P3Say(w) ==
    /\ wpc[w] = "p3_say"
    /\ \/ /\ engStatus' = 0
          /\ Goto(w, "p3_run")
       \/ /\ Goto(w, "p3_finally")
          /\ UNCHANGED engStatus
    /\ UNCHANGED << hlVars, flagVars, wordVars, threadVars, lock, engCb, requestVars,
                    cur, callerVars, widx, wfl, wslept, stopReturned >>

\* Pyttsx3Speaker._speak_worker, line 741: runAndWait() returns when the
\* engine has spoken the text or has been stopped, or it raises
P3RunAndWait(w) ==
    /\ wpc[w] = "p3_run"
    /\ Goto(w, "p3_finally")
    /\ UNCHANGED << hlVars, flagVars, wordVars, threadVars, lock, engineVars,
                    requestVars, cur, callerVars, widx, wfl, wslept, stopReturned >>

\* Pyttsx3Speaker._speak_worker, lines 744-749: the finally block clears both
\* flags under the lock
P3Finally(w) ==
    /\ wpc[w] = "p3_finally"
    /\ lock = Free
    /\ _is_speaking' = FALSE
    /\ _is_paused' = FALSE
    /\ Goto(w, "p3_unregister")
    /\ UNCHANGED << hlVars, wordVars, threadVars, lock, engineVars, requestVars, cur,
                    callerVars, widx, wfl, wslept, stopReturned >>

\* Pyttsx3Speaker._speak_worker, line 750, unregister_speech_thread: the
\* thread ends
P3Unregister(w) ==
    /\ wpc[w] = "p3_unregister"
    /\ registry' = registry \ {w}
    /\ Goto(w, "done")
    /\ UNCHANGED << hlVars, flagVars, wordVars, _speech_thread, lock, engineVars,
                    requestVars, cur, callerVars, widx, wfl, wslept, stopReturned >>

\* the steps of a public method of Pyttsx3Speaker that has been called
P3CallerRun(c) ==
    \/ P3StopEngine(c) \/ P3StopDisconnect(c) \/ P3StopClear(c) \/ P3Resume(c)
    \/ P3SpeakSet(c) \/ P3SpeakRate(c) \/ P3SpeakConnect(c) \/ P3SpeakStart(c)

P3CallerStep(c) ==
    \/ \E op \in {"pause", "resume", "stop"} : P3Call(c, op)
    \/ \E cb \in BOOLEAN, n \in WordCounts : P3SpeakCall(c, cb, n)
    \/ P3CallerRun(c)

P3WorkerStep(w) ==
    P3Say(w) \/ P3RunAndWait(w) \/ P3Finally(w) \/ P3Unregister(w)

P3Next ==
    \/ \E c \in Callers : P3CallerStep(c)
    \/ \E w \in Workers : P3WorkerStep(w)
    \/ EngineComplete

P3Spec == Init /\ [][P3Next]_vars

\* C21: for the basic engine variant, a stop() of an active request whose
\* self.engine.stop() raises returns normally and leaves the state Idle.
\* (NBSapiSpeaker.stop() clears both flags in its except branch, StopError;
\* Pyttsx3Speaker.stop() clears them only inside its try.)
C21_StopErrorLeavesIdle ==
    [][\A c \in Callers :
          (/\ cpc[c] = "p3_stop_engine"
           /\ cop[c] = "stop"
           /\ ctarget[c] # 0
           /\ cpc'[c] = "idle")
          => (cret'[c] # "raised" /\ ~_is_speaking' /\ ~_is_paused')]_vars

\* C22: for the basic engine variant, the state is Idle when pause() returns,
\* is_paused() is true in no reachable state, and resume() changes neither
\* the speaker's state nor the engine's.
C22_PauseDegradesToStop ==
    [][/\ ~is_paused'
       /\ \A c \in Callers :
             /\ (cop[c] = "pause" /\ cpc'[c] = "idle") => StateIdle'
             /\ (cop[c] = "resume" /\ cpc'[c] = "idle")
                   => UNCHANGED << flagVars, wordVars, threadVars, lock,
                                   engineVars, cur, workerVars >>]_vars

\* C23: no step of a speak() whose text has no word (an empty or
\* whitespace-only text) raises, takes the state out of Idle or starts a
\* worker thread.
C23_EmptyTextIsNoOp ==
    [][\A c \in Callers :
          (/\ cop[c] = "speak"
           /\ creq[c] # 0
           /\ req[creq[c]].nwords = 0
           /\ cpc'[c] # cpc[c])
          => (/\ cret'[c] # "raised"
              /\ StateIdle => StateIdle'
              /\ wpc' = wpc)]_vars

\* ------------------------------------------------------ the rate conversion
\* the largest speed that is passed to speak()
MaxSpeed == 4

\* the speeds: multiples of 0.125, which a float holds exactly, and multiples
\* of 0.1, whose product (speed - 1.0) * 10 is a float next to an integer
Speeds == {<< n, 8 >> : n \in 0..(8 * MaxSpeed)}
             \cup {<< n, 10 >> : n \in 0..(10 * MaxSpeed)}

\* round(n / d) of Python 3 for d > 0: to the nearest integer, a tie to the
\* even one
Round(n, d) ==
    LET q == n \div d
        r == n - q * d
    IN  IF 2 * r < d THEN q
        ELSE IF 2 * r > d THEN q + 1
        ELSE IF q % 2 = 0 THEN q ELSE q + 1

Max(a, b) == IF a >= b THEN a ELSE b
Min(a, b) == IF a <= b THEN a ELSE b

\* the conversion with int(), which drops the fraction, in the place of round()
SapiRateTruncated(s) ==
    LET n == 10 * (s[1] - s[2])
        t == IF n >= 0 THEN n \div s[2] ELSE -((-n) \div s[2])
    IN  Max(-10, Min(10, t))

\* speak(), lines 227-228: sapi_rate = round((speed - 1.0) * 10), then
\* max(-10, min(10, sapi_rate))
SapiRate(s) == Max(-10, Min(10, Round(10 * (s[1] - s[2]), s[2])))

\* a caller passes a speed to speak()
RateCall ==
    /\ hpc \in {"off", "rate_set"}
    /\ speed' \in Speeds
    /\ hpc' = "rate"
    /\ UNCHANGED << flagVars, wordVars, threadVars, lock, engineVars, requestVars,
                    cur, callerVars, workerVars, stopReturned, text,
                    current_word_index, flush_i, sapi_completion_detected,
                    delivered, timeVars, driftVars, extVars, sapi_rate >>

\* speak(), lines 227-229: self.tts.SetRate(sapi_rate)
SetRate ==
    /\ hpc = "rate"
    /\ sapi_rate' = SapiRate(speed)
    /\ hpc' = "rate_set"
    /\ UNCHANGED << flagVars, wordVars, threadVars, lock, engineVars, requestVars,
                    cur, callerVars, workerVars, stopReturned, text,
                    current_word_index, flush_i, sapi_completion_detected,
                    delivered, timeVars, driftVars, extVars, speed >>

RateNext == RateCall \/ SetRate

RateSpec == Init /\ [][RateNext]_vars

CleanupAlive(c) ==
    /\ cpc[c] = "cleanup_alive"
    /\ IF _speech_thread # 0 /\ Alive(_speech_thread)
       THEN /\ cpc' = [cpc EXCEPT ![c] = "cleanup_join"]
            /\ UNCHANGED << cop, cret >>
       ELSE Return(c, "none")
    /\ UNCHANGED << hlVars, flagVars, wordVars, threadVars, lock, engineVars,
                    requestVars, cur, creq, ctarget, workerVars, stopReturned >>

\* cleanup(), lines 668-669: self._speech_thread.join(timeout=1.0) returns
\* when the worker has ended or when the second is over, whichever is first;
\* then unregister_speech_thread(self._speech_thread)
CleanupJoin(c) ==
    /\ cpc[c] = "cleanup_join"
    /\ registry' = registry \ {_speech_thread}
    /\ Return(c, "none")
    /\ UNCHANGED << hlVars, flagVars, wordVars, _speech_thread, lock, engineVars,
                    requestVars, cur, creq, ctarget, workerVars, stopReturned >>

\* behaviours with a single speak() call and any other calls, cleanup() among
\* them
CleanupNext ==
    \/ SingleNext
    \/ \E c \in Callers : Call(c, "cleanup") \/ CleanupAlive(c) \/ CleanupJoin(c)

CleanupSpec == Init /\ [][CleanupNext]_vars

C26_CleanupLeavesIdle ==
    [][\A c \in Callers :
          (cop[c] = "cleanup" /\ cpc'[c] = "idle")
          => (/\ cret'[c] # "raised"
              /\ StateIdle'
              /\ _speech_thread' \notin registry')]_vars

\* C27: a worker whose request has a word callback and whose on_word_boundary
\* is not subscribed to the engine, because the engine has no SetWordCallBack
\* or because subscribing failed, goes on into the fallback highlighting.
C27_FallbackWhenNoNativeEvents ==
    [][\A w \in Workers :
          (/\ wpc[w] = "w_choose"
           /\ wpc'[w] # "w_choose"
           /\ req[w].cb
           /\ _word_callback # 0
           /\ engCb # w)
          => wpc'[w] = "fb_words"]_vars

RECURSIVE GCD(_, _)
GCD(a, b) == IF b = 0 THEN a ELSE GCD(b, a % b)

Abs(x) == IF x < 0 THEN -x ELSE x

\* n / d for d # 0
Frac(n, d) ==
    LET g == GCD(Abs(n), Abs(d))
    IN  IF d > 0 THEN << n \div g, d \div g >> ELSE << (-n) \div g, (-d) \div g >>

\* the operations take out common factors before they multiply
FAdd(x, y) ==
    LET g == GCD(x[2], y[2])
    IN  Frac(x[1] * (y[2] \div g) + y[1] * (x[2] \div g), (x[2] \div g) * y[2])
FSub(x, y) == FAdd(x, << -y[1], y[2] >>)
FMul(x, y) ==
    LET g == GCD(Abs(x[1]), y[2])
        h == GCD(Abs(y[1]), x[2])
    IN  Frac((x[1] \div g) * (y[1] \div h), (x[2] \div h) * (y[2] \div g))
FDiv(x, y) ==
    IF y[1] > 0 THEN FMul(x, << y[2], y[1] >>) ELSE FMul(x, << -y[2], -y[1] >>)
FLeq(x, y) ==
    LET g == GCD(x[2], y[2])
    IN  x[1] * (y[2] \div g) <= y[1] * (x[2] \div g)
FLess(x, y) == ~FLeq(y, x)

\* the characters of the texts whose expected times are computed: a small
\* letter, a capital, a digit, two of the characters of '.,!?;:', a space
TimingChars == {"a", "A", "1", ",", ".", " "}
\* number of characters of the longest of these texts
MaxTimingLen == 4
TimingTexts == UNION {[1..n -> TimingChars] : n \in 0..MaxTimingLen}
\* the rates that GetRate answers
TimingRates == {-10, 0, 10}

\* c in '.,!?;:', c.isdigit(), c.isupper()
IsPunct(ch) == ch \in {".", ",", "!", "?", ";", ":"}
IsDigit(ch) == ch = "1"
IsUpper(ch) == ch = "A"

\* the number of positions of t whose character is in the set S
Count(t, S) == Cardinality({p \in 1..Len(t) : t[p] \in S})

\* _calculate_text_complexity, lines 531-548
TextComplexity(t) ==
    IF Len(t) = 0 THEN << 0, 1 >>
    ELSE LET punct_ratio == Frac(Count(t, {".", ",", "!", "?", ";", ":"}), Len(t))
             digit_ratio == Frac(Count(t, {"1"}), Len(t))
             upper_ratio == Frac(Count(t, {"A"}), Len(t))
             complexity == FAdd(FMul(punct_ratio, << 2, 5 >>),
                                FAdd(FMul(digit_ratio, << 3, 10 >>),
                                     FMul(upper_ratio, << 3, 10 >>)))
         IN  IF FLeq(complexity, << 1, 1 >>) THEN complexity ELSE << 1, 1 >>

\* _sapi_status_word_highlighting, lines 393-401: adjusted_wps from the rate
\* of the engine and the complexity of the text
AdjustedWps(rate, t) ==
    LET base_wpm == 190 + rate * 20
        words_per_second == Frac(base_wpm, 60)
    IN  FMul(words_per_second,
             FSub(<< 1, 1 >>, FMul(TextComplexity(t), << 3, 10 >>)))

\* the text of the word at 1-based index j of the list words
WordText(j) == SubSeq(text, words[j].start + 1, words[j].start + words[j].length)

\* the expected time without the penalty of the word's length
ExpectedTimeNoLength(i, length, punct, wps) ==
    FAdd(FDiv(<< i, 1 >>, wps), IF punct THEN << 1, 10 >> ELSE << 0, 1 >>)

\* _sapi_status_word_highlighting, lines 411-418: word['expected_time'] of the
\* word at 0-based index i, with its length and whether it holds one of
\* '.,!?;:'
ExpectedTime(i, length, punct, wps) ==
    LET base_time == FDiv(<< i, 1 >>, wps)
        word_penalty == Frac(length * 2, 100)
        punct_penalty == IF punct THEN << 1, 10 >> ELSE << 0, 1 >>
    IN  FAdd(FAdd(base_time, word_penalty), punct_penalty)

\* _sapi_status_word_highlighting is entered with a text and an engine rate
TimingInit ==
    /\ SpeakerInit
    /\ ExtRest
    /\ native = FALSE
    /\ text \in TimingTexts
    /\ sapi_rate \in TimingRates
    /\ hpc = "timing"
    /\ current_word_index = 0
    /\ flush_i = 0
    /\ sapi_completion_detected = FALSE
    /\ delivered = << >>
    /\ now = 0
    /\ current_time = 0
    /\ expected_time = << >>
    /\ pause_start = 0
    /\ pause_began = 0
    /\ owed = << >>
    /\ speed = << 1, 1 >>
    /\ word_lengths = << >>
    /\ timing_corrections = << >>

\* _sapi_status_word_highlighting, lines 392-418: the try block reads the
\* rate; if GetRate raises, adjusted_wps is 3.0; then the expected time of
\* every word is computed
TimingCompute ==
    /\ hpc = "timing"
    /\ \E readable \in BOOLEAN :
          LET adjusted_wps == IF readable THEN AdjustedWps(sapi_rate, text)
                              ELSE << 3, 1 >>
          IN  /\ expected_time' =
                    [j \in 1..Len(words) |->
                        ExpectedTime(j - 1, words[j].length,
                                     \E p \in 1..Len(WordText(j)) :
                                        IsPunct(WordText(j)[p]),
                                     adjusted_wps)]
              /\ hpc' = IF readable THEN "timing_rate" ELSE "timing_norate"
    /\ UNCHANGED << hlFrame, flagVars, lock, engStatus, text, current_word_index,
                    flush_i, sapi_completion_detected, delivered, now,
                    current_time, pause_start, pause_began, owed >>

TimingNext == TimingCompute

TimingSpec == TimingInit /\ [][TimingNext]_vars

\* the expected time that the statement of C30 gives to the word at 1-based
\* index j, the 0.1 s being added for a word with a character of the set S
C30_Stated(j, S) ==
    LET textComplexity == TextComplexity(text)
        wordsPerSecond ==
            IF hpc = "timing_norate" THEN << 3, 1 >>
            ELSE FMul(Frac(190 + 20 * sapi_rate, 60),
                      FSub(<< 1, 1 >>, FMul(<< 3, 10 >>, textComplexity)))
        bonus == IF \E p \in 1..Len(WordText(j)) : WordText(j)[p] \in S
                 THEN << 1, 10 >> ELSE << 0, 1 >>
    IN  FAdd(FDiv(<< j - 1, 1 >>, wordsPerSecond),
             FAdd(Frac(2 * words[j].length, 100), bonus))

\* C30 as stated: the expected time of word i is i / wordsPerSecond + 0.02 s
\* per character + 0.1 s if the word contains terminal punctuation, a full
\* stop, an exclamation mark or a question mark.
C30_TerminalPunctuation ==
    hpc \in {"timing_rate", "timing_norate"} =>
       \A j \in 1..Len(words) :
          expected_time[j] = C30_Stated(j, {".", "!", "?"})

\* C30: the expected time of word i is i / wordsPerSecond + 0.02 s per
\* character + 0.1 s if the word contains one of the characters . , ! ? ; :
\* with wordsPerSecond = ((190 + 20 * rate) / 60) * (1 - 0.3 * complexity),
\* or 3.0 when the rate of the engine cannot be read.
C30_ExpectedTimeFormula ==
    hpc \in {"timing_rate", "timing_norate"} =>
       \A j \in 1..Len(words) :
          expected_time[j] = C30_Stated(j, {".", ",", "!", "?", ";", ":"})

\* the expected times of the text "a a," have been computed at rate 10: the
\* second word is due 0.2986 s after the start of the speech
C30_Witness ==
    /\ hpc = "timing_rate"
    /\ sapi_rate = 10
    /\ text = << "a", " ", "a", "," >>
    /\ expected_time = << << 1, 50 >>, << 18827, 63050 >> >>

\* ------------------------------------------------- the adaptive correction
\* One run of the loop of _sapi_status_word_highlighting, lines 428-527, for
\* a text of small letters while the engine speaks and is not paused and no
\* completion is detected; the words are given by their lengths.  The clock
\* `now` counts ticks of 0.02 s from the start of the speech.

\* number of words of the texts of these runs
MaxDriftWords == 4
\* number of clock ticks of these runs
MaxClock == 40
\* the rates that GetRate answers in these runs
DriftRates == {-10, 3}
\* the texts: words of one letter, and words of 1, 301, 601, ... letters
\* followed by a word of one letter
DriftWordLists ==
    { [j \in 1..MaxDriftWords |-> 1],
      [j \in 1..MaxDriftWords |-> IF j < MaxDriftWords THEN 300 * (j - 1) + 1 ELSE 1] }

\* time.time() at a tick, in seconds
ClockAt(t) == Frac(t, 50)

DriftInit ==
    /\ SpeakerInit
    /\ ExtRest
    /\ native = FALSE
    /\ text = << >>
    /\ hpc = "drift"
    /\ current_word_index = 0
    /\ flush_i = 0
    /\ sapi_completion_detected = FALSE
    /\ delivered = << >>
    /\ now = 0
    /\ current_time = << 0, 1 >>
    /\ expected_time = << >>
    /\ pause_start = 0
    /\ pause_began = 0
    /\ owed = << >>
    /\ speed = << 1, 1 >>
    /\ sapi_rate \in DriftRates
    /\ word_lengths \in DriftWordLists
    /\ timing_corrections = << >>

\* _speak_with_word_highlighting_fallback, line 382, starts the speech;
\* _sapi_status_word_highlighting, lines 392-425: the complexity of a text of
\* small letters and spaces is 0, so adjusted_wps is words_per_second
DriftStart ==
    /\ hpc = "drift"
    /\ _is_speaking' = TRUE
    /\ engStatus' = 0
    /\ expected_time' =
          [j \in 1..Len(word_lengths) |->
              ExpectedTime(j - 1, word_lengths[j], FALSE,
                           Frac(190 + sapi_rate * 20, 60))]
    /\ timing_corrections' = << >>
    /\ hpc' = "drift_head"
    /\ UNCHANGED << _word_callback, _current_words, _current_word_index,
                    _paused_word_index, threadVars, engCb, requestVars, cur,
                    callerVars, workerVars, stopReturned, rateVars, extVars, _is_paused, lock, text, current_word_index, flush_i,
                    sapi_completion_detected, delivered, now, current_time,
                    pause_start, pause_began, owed, word_lengths >>

\* _sapi_status_word_highlighting, lines 428-429: the loop condition and the
\* reading of the clock
DriftHead ==
    /\ hpc = "drift_head"
    /\ IF current_word_index < Len(word_lengths)
       THEN /\ current_time' = ClockAt(now)
            /\ hpc' = "drift_timed"
       ELSE /\ hpc' = "drift_end"
            /\ UNCHANGED current_time
    /\ UNCHANGED << _word_callback, _current_words, _current_word_index,
                    _paused_word_index, threadVars, engCb, requestVars, cur,
                    callerVars, workerVars, stopReturned, rateVars, extVars, flagVars, lock, engStatus, text, current_word_index,
                    flush_i, sapi_completion_detected, delivered, now,
                    expected_time, pause_start, pause_began, owed, driftVars >>

\* timing_corrections with one more entry, its last three entries kept
Corrected(ratio) ==
    LET all == Append(timing_corrections, ratio)
    IN  IF Len(all) > 3 THEN Tail(all) ELSE all

\* _sapi_status_word_highlighting, lines 498-512: the expected times after
\* the word at 0-based index i has been highlighted with the corrections tc
Adjusted(i, tc) ==
    IF Len(tc) < 3 THEN expected_time
    ELSE LET avg_correction == FDiv(FAdd(FAdd(tc[1], tc[2]), tc[3]), << 3, 1 >>)
             correction_factor == FMul(FSub(avg_correction, << 1, 1 >>), << 3, 10 >>)
         IN  [j \in 1..Len(expected_time) |->
                 IF j > i + 1
                 THEN FAdd(expected_time[j],
                           FMul(expected_time[j], correction_factor))
                 ELSE expected_time[j]]

\* _sapi_status_word_highlighting, lines 483-519: if the expected time of the
\* current word has come, the callback is invoked; if it returns, the ratio
\* of the actual to the expected elapsed time is noted when the expected one
\* is positive, and with three ratios the expected times of the later words
\* are adjusted; if it raises (line 517) the correction is passed over; the
\* index advances in both cases
DriftTimed ==
    /\ hpc = "drift_timed"
    /\ LET expected_elapsed == expected_time[current_word_index + 1]
           actual_elapsed == current_time
       IN  IF FLeq(expected_elapsed, current_time)
           THEN /\ current_word_index' = current_word_index + 1
                /\ \/ IF FLess(<< 0, 1 >>, expected_elapsed)
                      THEN LET tc == Corrected(FDiv(actual_elapsed, expected_elapsed))
                           IN  /\ timing_corrections' = tc
                               /\ expected_time' = Adjusted(current_word_index, tc)
                      ELSE UNCHANGED << timing_corrections, expected_time >>
                   \/ UNCHANGED << timing_corrections, expected_time >>
           ELSE UNCHANGED << current_word_index, timing_corrections, expected_time >>
    /\ hpc' = "drift_head"
    /\ UNCHANGED << _word_callback, _current_words, _current_word_index,
                    _paused_word_index, threadVars, engCb, requestVars, cur,
                    callerVars, workerVars, stopReturned, rateVars, extVars, flagVars, lock, engStatus, text, flush_i,
                    sapi_completion_detected, delivered, now, current_time,
                    pause_start, pause_began, owed, word_lengths >>

\* time passes while the loop runs or sleeps (line 527)
DriftTick ==
    /\ hpc \in {"drift_head", "drift_timed"}
    /\ now < MaxClock
    /\ now' = now + 1
    /\ UNCHANGED << _word_callback, _current_words, _current_word_index,
                    _paused_word_index, threadVars, engCb, requestVars, cur,
                    callerVars, workerVars, stopReturned, rateVars, extVars, flagVars, lock, engStatus, runVars, current_time,
                    expected_time, pause_start, pause_began, owed, driftVars >>

DriftNext == DriftStart \/ DriftHead \/ DriftTimed \/ DriftTick

DriftSpec == DriftInit /\ [][DriftNext]_vars

\* C29: the step that highlights a word leaves the expected time of every
\* word that is still to be highlighted where it was or moves it later, and
\* keeps the order of the expected times of any two such words.
C29_CorrectionKeepsOrder ==
    [][hpc = "drift_timed" =>
          \A j \in (current_word_index' + 1)..Len(expected_time) :
             /\ FLeq(expected_time[j], expected_time'[j])
             /\ \A k \in (current_word_index' + 1)..Len(expected_time) :
                   FLess(expected_time[j], expected_time[k])
                      => FLess(expected_time'[j], expected_time'[k])]_vars

\* ---------------------------------------------------------------------
\* The start of the application: startup_cleanup, run by every instance.
\* The instances share the process table and the lock file in the working
\* directory; each step below is one system call of one instance.

\* the values of VORLESE_KILL_PREVIOUS tried, "" when it is not set
EnvValues == {"", "1", "true", "YES", "0", "no"}

\* str.lower on those values
Lower(v) == IF v = "YES" THEN "yes" ELSE v

\* the test of line 71
KillEnabled(v) == Lower(v) \in {"1", "true", "yes"}

\* the variables of the speaker, which startup_cleanup leaves alone
startupFrame == << flagVars, wordVars, _speech_thread, lock, engineVars,
                   requestVars, cur, callerVars, workerVars, stopReturned,
                   runVars, timeVars, rateVars, driftVars, sapiVars,
                   hotkeyVars, windowVars >>

\* the speaker just constructed, with no request and no highlighting run
SpeakerRest ==
    /\ SpeakerInit
    /\ text = << >>
    /\ hpc = "off"
    /\ current_word_index = 0
    /\ flush_i = 0
    /\ sapi_completion_detected = FALSE
    /\ delivered = << >>
    /\ now = 0
    /\ current_time = 0
    /\ expected_time = << >>
    /\ pause_start = 0
    /\ pause_began = 0
    /\ owed = << >>
    /\ speed = << 1, 1 >>
    /\ sapi_rate = 0
    /\ word_lengths = << >>
    /\ timing_corrections = << >>
    /\ native = FALSE

\* every instance is about to call startup_cleanup; the lock file is absent
\* or left by an instance that ended earlier
StartupInit ==
    /\ SpeakerRest
    /\ ppc = [p \in Procs |-> "start"]
    /\ alive = Procs
    /\ kill_previous \in EnvValues
    /\ lock_file \in {0, StalePid}
    /\ SapiRest
    /\ HotkeyRest
    /\ WindowRest

\* kill_previous_instances_fast: without the flag nothing is killed; with
\* it every other instance is killed, except those whose kill() raises
\* NoSuchProcess or AccessDenied (line 105), and never the current process
\* (line 81)
StartupKill(p) ==
    /\ p \in alive
    /\ ppc[p] = "start"
    /\ IF KillEnabled(kill_previous)
       THEN \E K \in SUBSET (alive \ {p}) : alive' = alive \ K
       ELSE alive' = alive
    /\ ppc' = [ppc EXCEPT ![p] = "threads"]
    /\ UNCHANGED << kill_previous, lock_file, registry, startupFrame >>

\* cleanup_all_speech_threads: the registry is emptied
StartupThreads(p) ==
    /\ p \in alive
    /\ ppc[p] = "threads"
    /\ registry' = {}
    /\ ppc' = [ppc EXCEPT ![p] = "exists"]
    /\ UNCHANGED << alive, kill_previous, lock_file, startupFrame >>

\* os.path.exists(_PROCESS_LOCK_FILE), line 122
StartupExists(p) ==
    /\ p \in alive
    /\ ppc[p] = "exists"
    /\ ppc' = [ppc EXCEPT ![p] = IF lock_file # 0 THEN "remove" ELSE "write"]
    /\ UNCHANGED << alive, kill_previous, lock_file, registry, startupFrame >>

\* os.remove(_PROCESS_LOCK_FILE), line 123; when the file is gone by now the
\* call raises FileNotFoundError, caught at line 128, and startup_cleanup
\* returns without writing
StartupRemove(p) ==
    /\ p \in alive
    /\ ppc[p] = "remove"
    /\ IF lock_file # 0
       THEN /\ lock_file' = 0
            /\ ppc' = [ppc EXCEPT ![p] = "write"]
       ELSE /\ lock_file' = lock_file
            /\ ppc' = [ppc EXCEPT ![p] = "done"]
    /\ UNCHANGED << alive, kill_previous, registry, startupFrame >>

\* lines 125-126: the file is created or truncated and the pid written
StartupWrite(p) ==
    /\ p \in alive
    /\ ppc[p] = "write"
    /\ lock_file' = p
    /\ ppc' = [ppc EXCEPT ![p] = "done"]
    /\ UNCHANGED << alive, kill_previous, registry, startupFrame >>

StartupNext ==
    \E p \in Procs :
        \/ StartupKill(p)
        \/ StartupThreads(p)
        \/ StartupExists(p)
        \/ StartupRemove(p)
        \/ StartupWrite(p)

StartupSpec == StartupInit /\ [][StartupNext]_vars

\* C31: startup_cleanup terminates other processes only when
\* VORLESE_KILL_PREVIOUS is 1, true or yes, never the current process, and
\* when it returns the lock file holds the process id of the instance that
\* ran it.
C31_KillOptInAndLockFile ==
    /\ [][alive' # alive => KillEnabled(kill_previous)]_vars
    /\ [][\A p \in Procs :
            ppc[p] = "start" /\ ppc'[p] # "start" => p \in alive']_vars
    /\ [][\A p \in Procs :
            ppc[p] # "done" /\ ppc'[p] = "done" => lock_file' = p]_vars

\* C32: when the worker of a superseded request ends while the worker of the
\* request that superseded it is alive, its finally block leaves the
\* speaking flag and the word callback of the newer request as they are.
C32_StaleWorkerKeepsState ==
    [][\A w \in Workers :
        (wpc[w] = "fin" /\ wpc'[w] # "fin" /\ cur # 0 /\ cur # w /\ Alive(cur))
            => UNCHANGED << _is_speaking, _word_callback >>
      ]_vars

\* C33: a worker invokes the word callback only while the callback in place
\* is the one supplied with the worker's own request, so a callback never
\* receives a pair computed from the text of another request.
C33_CallbackOfOwnRequest ==
    [][\A w \in Workers : Delivers(w) => _word_callback = w]_vars

\* C34: whenever the speaker reports an active request and no speak() is in
\* progress, the worker thread of the current request exists and is alive.
C34_ActiveHasWorker ==
    (_is_speaking /\ \A c \in Callers : cop[c] # "speak")
        => (cur # 0 /\ Alive(cur))

\* ---------------------------------------------------------------------
\* SAPITextSpeaker (text_speaker.py): the text is split into sentences and a
\* worker thread speaks them one by one.  The public methods run under the
\* non-reentrant self._lock; the worker reads the events, the sentence list
\* and the sentence index without it.  The dummy engine is modelled, or an
\* engine whose calls succeed; texts hold no [pause] tag.

\* the number of sentences of every text
MaxSentences == 2

\* len(self._current_sentences)
SentenceCount == IF _current_sentences = 0 THEN 0 ELSE MaxSentences

\* the variables of the other speakers and of the rest of the application
sapiFrame == << wordVars, threadVars, engineVars, native, req, cur, ctarget,
                widx, wfl, wslept, stopReturned, runVars, timeVars, rateVars,
                driftVars, startupVars, hotkeyVars, windowVars >>

SapiInit ==
    /\ SpeakerRest
    /\ StartupRest
    /\ SapiRest
    /\ HotkeyRest
    /\ WindowRest

\* a caller thread invokes pause(), resume() or stop()
SapiCall(c, op) ==
    /\ cpc[c] = "idle"
    /\ op \in {"pause", "resume", "stop"}
    /\ cop' = [cop EXCEPT ![c] = op]
    /\ cpc' = [cpc EXCEPT ![c] = "sapi_" \o op]
    /\ UNCHANGED << flagVars, lock, creq, cret, nextReq, wpc, sapiVars,
                    sapiFrame >>

\* a caller thread invokes speak() with a new text
SapiSpeakCall(c) ==
    /\ cpc[c] = "idle"
    /\ nextReq <= MaxRequests
    /\ cop' = [cop EXCEPT ![c] = "speak"]
    /\ cpc' = [cpc EXCEPT ![c] = "sapi_speak_lock"]
    /\ creq' = [creq EXCEPT ![c] = nextReq]
    /\ nextReq' = nextReq + 1
    /\ UNCHANGED << flagVars, lock, cret, wpc, sapiVars, sapiFrame >>

\* speak(), lines 178-181: take the lock and, when a request is active, call
\* self.stop() with the lock held
SapiSpeakLock(c) ==
    /\ cpc[c] = "sapi_speak_lock"
    /\ lock = Free
    /\ lock' = CallerT(c)
    /\ cpc' = [cpc EXCEPT ![c] = IF _is_speaking THEN "sapi_stop"
                                                  ELSE "sapi_speak_set"]
    /\ UNCHANGED << flagVars, cop, creq, cret, nextReq, wpc, sapiVars,
                    sapiFrame >>

\* stop(), lines 300-316: `with self._lock` waits until the lock is free,
\* also when the thread that waits is the one that holds it
SapiStop(c) ==
    /\ cpc[c] = "sapi_stop"
    /\ lock = Free
    /\ _stop_event' = TRUE
    /\ _pause_event' = TRUE
    /\ _current_sentences' = 0
    /\ _current_sentence_index' = 0
    /\ _is_paused' = FALSE
    /\ _is_speaking' = FALSE
    /\ lock' = Free
    /\ IF cop[c] = "speak"
       THEN /\ cpc' = [cpc EXCEPT ![c] = "sapi_speak_set"]
            /\ UNCHANGED << cop, cret >>
       ELSE Return(c, "none")
    /\ UNCHANGED << creq, nextReq, wpc, sentence, spoken, sapiFrame >>

\* speak(), lines 183-189: the new text, its sentences and the flags
SapiSpeakSet(c) ==
    /\ cpc[c] = "sapi_speak_set"
    /\ _current_sentences' = creq[c]
    /\ _current_sentence_index' = 0
    /\ _is_paused' = FALSE
    /\ _is_speaking' = TRUE
    /\ _stop_event' = FALSE
    /\ _pause_event' = TRUE
    /\ cpc' = [cpc EXCEPT ![c] = "sapi_speak_start"]
    /\ UNCHANGED << lock, cop, creq, cret, nextReq, wpc, sentence, spoken,
                    sapiFrame >>

\* speak(), lines 203-209: the worker thread is started, the lock released
SapiSpeakStart(c) ==
    /\ cpc[c] = "sapi_speak_start"
    /\ Goto(creq[c], "ss_head")
    /\ creq' = [creq EXCEPT ![c] = 0]
    /\ lock' = Free
    /\ Return(c, "none")
    /\ UNCHANGED << flagVars, nextReq, sapiVars, sapiFrame >>

\* pause(), lines 272-287
SapiPause(c) ==
    /\ cpc[c] = "sapi_pause"
    /\ lock = Free
    /\ IF _is_speaking /\ ~_is_paused
       THEN /\ _is_paused' = TRUE
            /\ _pause_event' = FALSE
       ELSE UNCHANGED << _is_paused, _pause_event >>
    /\ Return(c, "none")
    /\ UNCHANGED << _is_speaking, lock, creq, nextReq, wpc, _stop_event,
                    _current_sentences, _current_sentence_index, sentence,
                    spoken, sapiFrame >>

\* resume(), lines 289-298
SapiResume(c) ==
    /\ cpc[c] = "sapi_resume"
    /\ lock = Free
    /\ IF _is_paused
       THEN /\ _is_paused' = FALSE
            /\ _pause_event' = TRUE
       ELSE UNCHANGED << _is_paused, _pause_event >>
    /\ Return(c, "none")
    /\ UNCHANGED << _is_speaking, lock, creq, nextReq, wpc, _stop_event,
                    _current_sentences, _current_sentence_index, sentence,
                    spoken, sapiFrame >>

\* a step of the worker that changes its position only
SapiGoto(w, pc) ==
    /\ Goto(w, pc)
    /\ UNCHANGED << flagVars, lock, cpc, cop, creq, cret, nextReq, sapiVars,
                    sapiFrame >>

\* _speak_sentences, lines 214-215: the test of the while loop
SSHead(w) ==
    /\ wpc[w] = "ss_head"
    /\ SapiGoto(w, IF _current_sentence_index < SentenceCount /\ ~_stop_event
                   THEN "ss_wait" ELSE "ss_fin")

\* line 218: self._pause_event.wait() returns once the event is set
SSWait(w) ==
    /\ wpc[w] = "ss_wait"
    /\ _pause_event
    /\ SapiGoto(w, "ss_check")

\* lines 221-222: the second test of the stop event
SSCheck(w) ==
    /\ wpc[w] = "ss_check"
    /\ SapiGoto(w, IF _stop_event THEN "ss_fin" ELSE "ss_get")

\* line 224: the sentence at the current index is read; an index outside
\* the list raises IndexError, caught at line 264
SSGet(w) ==
    /\ wpc[w] = "ss_get"
    /\ IF _current_sentence_index < SentenceCount
       THEN /\ sentence' = [sentence EXCEPT
                   ![w] = << _current_sentences, _current_sentence_index >>]
            /\ Goto(w, "ss_speak")
       ELSE /\ sentence' = sentence
            /\ Goto(w, "ss_fin")
    /\ UNCHANGED << flagVars, lock, cpc, cop, creq, cret, nextReq,
                    _pause_event, _stop_event, _current_sentences,
                    _current_sentence_index, spoken, sapiFrame >>

\* lines 235-255: the sentence is spoken
SSSpeak(w) ==
    /\ wpc[w] = "ss_speak"
    /\ spoken' = Append(spoken, [worker |-> w, request |-> sentence[w][1],
                                 index |-> sentence[w][2]])
    /\ Goto(w, "ss_inc")
    /\ UNCHANGED << flagVars, lock, cpc, cop, creq, cret, nextReq,
                    _pause_event, _stop_event, _current_sentences,
                    _current_sentence_index, sentence, sapiFrame >>

\* lines 257-261: the shared index is advanced, then the worker sleeps
SSInc(w) ==
    /\ wpc[w] = "ss_inc"
    /\ _current_sentence_index' = _current_sentence_index + 1
    /\ Goto(w, "ss_head")
    /\ UNCHANGED << flagVars, lock, cpc, cop, creq, cret, nextReq,
                    _pause_event, _stop_event, _current_sentences, sentence,
                    spoken, sapiFrame >>

\* lines 265-268: the finally block clears the flags under the lock
SSFinally(w) ==
    /\ wpc[w] = "ss_fin"
    /\ lock = Free
    /\ _is_speaking' = FALSE
    /\ _is_paused' = FALSE
    /\ Goto(w, "done")
    /\ UNCHANGED << lock, cpc, cop, creq, cret, nextReq, sapiVars, sapiFrame >>

SapiNext ==
    \/ \E c \in Callers :
        \/ \E op \in {"pause", "resume", "stop"} : SapiCall(c, op)
        \/ SapiSpeakCall(c)
        \/ SapiSpeakLock(c)
        \/ SapiStop(c)
        \/ SapiSpeakSet(c)
        \/ SapiSpeakStart(c)
        \/ SapiPause(c)
        \/ SapiResume(c)
    \/ \E w \in Workers :
        \/ SSHead(w)
        \/ SSWait(w)
        \/ SSCheck(w)
        \/ SSGet(w)
        \/ SSSpeak(w)
        \/ SSInc(w)
        \/ SSFinally(w)

SapiSpec == SapiInit /\ [][SapiNext]_vars

\* C35: speak() called while an utterance is in progress never waits for the
\* speaker's lock while holding that lock itself.
C35_SpeakNeverBlocksOnOwnLock ==
    \A c \in Callers : ~(cpc[c] = "sapi_stop" /\ lock = CallerT(c))

\* the indices of the sentences of request r spoken so far, in the order in
\* which they were spoken
SpokenOf(r) ==
    LET Pick(e) == e.request = r
        idx == SelectSeq(spoken, Pick)
    IN [k \in 1..Len(idx) |-> idx[k].index]

\* C36: every sentence is spoken by the worker of the request it belongs to,
\* and the sentences of a request are spoken once each in index order:
\* the k-th sentence spoken of a request is the one at index k - 1.
C36_OneWorkerInOrder ==
    /\ \A k \in 1..Len(spoken) : spoken[k].worker = spoken[k].request
    /\ \A r \in Workers : \A k \in 1..Len(SpokenOf(r)) : SpokenOf(r)[k] = k - 1

\* C37: while the speaker is paused its worker starts no sentence, and with
\* one request and no stop() the sentences spoken so far are those at the
\* indices 0, 1, 2, ... in that order, however often pause() and resume()
\* were called.
C37_PausedStartsNoSentence ==
    /\ [][spoken' # spoken => ~_is_paused]_vars
    /\ [](nextReq = 2 /\ _current_sentences = 1
            => \A k \in 1..Len(spoken) : spoken[k].index = k - 1)

\* ---------------------------------------------------------------------
\* The pause/resume hotkey (main.py, _on_pause_resume_hotkey) over the
\* speakers of the enabled actions.  Each speaker is kept as its two flags;
\* speak(), the end of its worker, pause() and resume() are taken as single
\* steps, and the speakers change only between two presses.

\* the variables outside the hotkey handler
hotkeyFrame == << flagVars, wordVars, threadVars, lock, engineVars,
                  requestVars, cur, callerVars, workerVars, stopReturned,
                  runVars, timeVars, rateVars, driftVars, startupVars,
                  sapiVars, windowVars >>

HotkeyInit ==
    /\ SpeakerRest
    /\ StartupRest
    /\ SapiRest
    /\ HotkeyRest
    /\ WindowRest

\* TextSpeakerBase.is_speaking (lines 168-171): speaking and not paused
IsSpeaking(s) == s._is_speaking /\ ~s._is_paused

\* _on_speak_hotkey, line 150: speak() on the speaker of one action; the
\* other speakers are left as they are
SpkSpeak(a) ==
    /\ kpc = "idle"
    /\ speakers' = [speakers EXCEPT
                       ![a] = [_is_speaking |-> TRUE, _is_paused |-> FALSE]]
    /\ UNCHANGED << kpc, action, active_speaker, paused_speaker, hotkey_ops,
                    hotkeyFrame >>

\* the worker of a speaker ends: its finally block clears both flags
SpkEnds(a) ==
    /\ kpc = "idle"
    /\ speakers[a]._is_speaking
    /\ speakers' = [speakers EXCEPT
                       ![a] = [_is_speaking |-> FALSE, _is_paused |-> FALSE]]
    /\ UNCHANGED << kpc, action, active_speaker, paused_speaker, hotkey_ops,
                    hotkeyFrame >>

\* lines 153-159: the hotkey is pressed
HotkeyPress ==
    /\ kpc = "idle"
    /\ kpc' = "loop"
    /\ action' = 1
    /\ active_speaker' = 0
    /\ paused_speaker' = 0
    /\ hotkey_ops' = << >>
    /\ UNCHANGED << speakers, hotkeyFrame >>

\* lines 161-175: one iteration of the loop over self.speakers, in the
\* order of the dictionary; the loop ends at the first speaker that is
\* speaking or paused
HotkeyLook ==
    /\ kpc = "loop"
    /\ IF action > MaxSpeakers
       THEN /\ kpc' = "act"
            /\ UNCHANGED << action, active_speaker, paused_speaker >>
       ELSE LET speaking == IsSpeaking(speakers[action])
                paused == speakers[action]._is_paused
            IN IF speaking /\ ~paused
               THEN /\ active_speaker' = action
                    /\ kpc' = "act"
                    /\ UNCHANGED << action, paused_speaker >>
               ELSE IF paused
               THEN /\ paused_speaker' = action
                    /\ kpc' = "act"
                    /\ UNCHANGED << action, active_speaker >>
               ELSE /\ action' = action + 1
                    /\ UNCHANGED << kpc, active_speaker, paused_speaker >>
    /\ UNCHANGED << speakers, hotkey_ops, hotkeyFrame >>

\* NBSapiSpeaker.pause (text_speaker_v2.py lines 550-578): ignored unless
\* speaking and not paused; an exception of tts.Pause() is caught and
\* leaves the flags as they are
SpkPause(a, ok) ==
    /\ speakers' = IF IsSpeaking(speakers[a]) /\ ok
                   THEN [speakers EXCEPT ![a]._is_paused = TRUE]
                   ELSE speakers
    /\ hotkey_ops' = Append(hotkey_ops,
           [op |-> "pause", speaker |-> a,
            done |-> IsSpeaking(speakers[a]) /\ ok])

\* NBSapiSpeaker.resume (lines 580-631): ignored unless speaking and paused;
\* an exception of tts.Resume() is caught and leaves the flags as they are
SpkResume(a, ok) ==
    /\ speakers' = IF speakers[a]._is_speaking /\ speakers[a]._is_paused /\ ok
                   THEN [speakers EXCEPT ![a]._is_paused = FALSE]
                   ELSE speakers
    /\ hotkey_ops' = Append(hotkey_ops,
           [op |-> "resume", speaker |-> a,
            done |-> speakers[a]._is_speaking /\ speakers[a]._is_paused /\ ok])

\* lines 177-189: pause the active speaker, else resume the paused one,
\* else do nothing
HotkeyAct ==
    /\ kpc = "act"
    /\ IF active_speaker # 0
       THEN \E ok \in BOOLEAN : SpkPause(active_speaker, ok)
       ELSE IF paused_speaker # 0
       THEN \E ok \in BOOLEAN : SpkResume(paused_speaker, ok)
       ELSE UNCHANGED << speakers, hotkey_ops >>
    /\ kpc' = "idle"
    /\ UNCHANGED << action, active_speaker, paused_speaker, hotkeyFrame >>

HotkeyNext ==
    \/ \E a \in Actions : SpkSpeak(a) \/ SpkEnds(a)
    \/ HotkeyPress
    \/ HotkeyLook
    \/ HotkeyAct

HotkeySpec == HotkeyInit /\ [][HotkeyNext]_vars

\* the speakers that are speaking and not paused, and those that are paused
SpeakingSpeakers == {a \in Actions : IsSpeaking(speakers[a])}
PausedSpeakers == {a \in Actions : speakers[a]._is_paused}

\* C38: a press performs at most one speaker operation: pause() on a speaker
\* that is speaking and not paused when there is one, otherwise resume() on
\* a paused speaker when there is one, otherwise nothing; with one active
\* speaker and an engine call that succeeds, the press turns Speaking into
\* Paused and Paused into Speaking.
C38_HotkeyTogglesOneSpeaker ==
    [][(kpc = "act" /\ kpc' = "idle") =>
        /\ Len(hotkey_ops') <= 1
        /\ SpeakingSpeakers # {} =>
              /\ Len(hotkey_ops') = 1
              /\ hotkey_ops'[1].op = "pause"
              /\ hotkey_ops'[1].speaker \in SpeakingSpeakers
        /\ (SpeakingSpeakers = {} /\ PausedSpeakers # {}) =>
              /\ Len(hotkey_ops') = 1
              /\ hotkey_ops'[1].op = "resume"
              /\ hotkey_ops'[1].speaker \in PausedSpeakers
        /\ (SpeakingSpeakers = {} /\ PausedSpeakers = {}) =>
              hotkey_ops' = << >>
        /\ \A a \in Actions :
              (/\ \A b \in Actions \ {a} : ~speakers[b]._is_speaking
               /\ Len(hotkey_ops') = 1
               /\ hotkey_ops'[1].done)
              => /\ IsSpeaking(speakers[a]) => speakers'[a]._is_paused
                 /\ speakers[a]._is_paused => IsSpeaking(speakers'[a])
      ]_vars

\* ---------------------------------------------------------------------
\* The display window (text_display_window.py).  Any thread puts commands
\* on self.command_queue; the GUI thread alone takes them off and executes
\* them in _run_event_loop.

\* the commands put on the queue in one behaviour
MaxCommands == 3
\* the texts given to set_text
MaxTexts == 2
WindowTexts == 1..MaxTexts
\* the (location, length) pair given to highlight_word
Pairs == {<< 0, 1 >>}

\* the variables outside the display window
windowFrame == << flagVars, wordVars, threadVars, lock, engineVars,
                  requestVars, cur, callerVars, workerVars, stopReturned,
                  runVars, timeVars, rateVars, driftVars, startupVars,
                  sapiVars, hotkeyVars >>

WindowInit ==
    /\ SpeakerRest
    /\ StartupRest
    /\ SapiRest
    /\ HotkeyRest
    /\ WindowRest

\* self.command_queue.put((command, args, kwargs))
Put(command, args) ==
    /\ Len(enqueued) < MaxCommands
    /\ command_queue' = Append(command_queue,
                               [command |-> command, args |-> args])
    /\ enqueued' = Append(enqueued, [command |-> command, args |-> args])
    /\ UNCHANGED << is_running, gpc, current_text, visible, highlighted,
                    executed, windowFrame >>

\* show(), lines 238-241
Show == Put("show", << >>)

\* hide(), lines 243-245
Hide == Put("hide", << >>)

\* set_text(text), lines 247-250
SetText(t) == Put("set_text", << t >>)

\* highlight_word(location, length), lines 252-254
HighlightWord(location, length) == Put("highlight_word", << location, length >>)

\* cleanup(), lines 299-308: the event loop is told to end
WindowCleanup ==
    /\ is_running
    /\ is_running' = FALSE
    /\ UNCHANGED << command_queue, gpc, current_text, visible, highlighted,
                    enqueued, executed, windowFrame >>

\* _run_event_loop, lines 136-139: the test of the loop and
\* self.window.update(), whose TclError ends the loop (lines 151-153)
GuiUpdate ==
    /\ gpc = "update"
    /\ \/ /\ is_running
          /\ gpc' = "drain"
       \/ /\ is_running
          /\ gpc' = "ended"
       \/ /\ ~is_running
          /\ gpc' = "ended"
    /\ UNCHANGED << command_queue, is_running, current_text, visible,
                    highlighted, enqueued, executed, windowFrame >>

\* the command that the bare queue hands out last
NewestCommand(q) == q[Len(q)]

\* queue.Queue.get_nowait: the command that was put first
NextCommand(q) == q[1]

\* _execute_command, lines 158-173, with _show_window, _hide_window,
\* _set_text_internal (the old text and its tags are deleted, the new text
\* inserted) and _highlight_word_internal (the tag is moved)
Execute(cmd) ==
    /\ visible' = IF cmd.command = "show" THEN TRUE
                  ELSE IF cmd.command = "hide" THEN FALSE
                  ELSE visible
    /\ current_text' = IF cmd.command = "set_text" THEN cmd.args[1]
                       ELSE current_text
    /\ highlighted' = IF cmd.command = "set_text" THEN << >>
                      ELSE IF cmd.command = "highlight_word"
                      THEN << current_text, cmd.args[1], cmd.args[2] >>
                      ELSE highlighted
    /\ executed' = Append(executed, [cmd |-> cmd, on |-> current_text'])

\* _run_event_loop, lines 141-149: the commands are taken off the queue one
\* by one until it is empty, then the thread sleeps and goes round
GuiDrain ==
    /\ gpc = "drain"
    /\ IF command_queue = << >>
       THEN /\ gpc' = "update"
            /\ UNCHANGED << command_queue, current_text, visible, highlighted,
                            executed >>
       ELSE /\ Execute(NextCommand(command_queue))
            /\ command_queue' = Tail(command_queue)
            /\ gpc' = gpc
    /\ UNCHANGED << is_running, enqueued, windowFrame >>

WindowNext ==
    \/ Show
    \/ Hide
    \/ \E t \in WindowTexts : SetText(t)
    \/ \E p \in Pairs : HighlightWord(p[1], p[2])
    \/ WindowCleanup
    \/ GuiUpdate
    \/ GuiDrain

WindowSpec == WindowInit /\ [][WindowNext]_vars

\* the GUI thread is a thread of its own and keeps running
WindowFairSpec ==
    WindowInit /\ [][WindowNext]_vars /\ WF_vars(GuiUpdate) /\ WF_vars(GuiDrain)

\* the event loop has not ended and has not been told to end
WindowRunning == is_running /\ gpc # "ended"

RECURSIVE LastSetText(_, _)
\* the text of the last set_text among the first k commands of q, 0 if none
LastSetText(q, k) ==
    IF k = 0 THEN 0
    ELSE IF q[k].command = "set_text" THEN q[k].args[1]
    ELSE LastSetText(q, k - 1)

\* C39: the commands executed so far are the first commands enqueued, in
\* that order and once each, the queue holds the others; every highlight was
\* applied to the text of the last set_text enqueued before it; and every
\* command enqueued is executed unless the window stops running.
C39_CommandsInOrderOnce ==
    /\ [](/\ Len(executed) <= Len(enqueued)
          /\ \A k \in 1..Len(executed) : executed[k].cmd = enqueued[k]
          /\ command_queue = SubSeq(enqueued, Len(executed) + 1, Len(enqueued))
          /\ \A k \in 1..Len(executed) :
                executed[k].cmd.command = "highlight_word"
                    => executed[k].on = LastSetText(enqueued, k - 1))
    /\ \A k \in 1..MaxCommands :
          (Len(enqueued) >= k) ~> (Len(executed) >= k \/ ~WindowRunning)

\* two texts were set one after the other and a word highlighted: the
\* highlight lies on the second text
C39_Witness ==
    /\ Len(executed) = 3
    /\ executed[1].cmd = [command |-> "set_text", args |-> << 1 >>]
    /\ executed[2].cmd = [command |-> "set_text", args |-> << 2 >>]
    /\ executed[3].cmd.command = "highlight_word"
    /\ highlighted = << 2, 0, 1 >>
    /\ WindowRunning
====
